---------------------------- MODULE Spec2Model ----------------------------
(***************************************************************************)
(* Model of the EPUB splitter: the chunk partitioner of EPUBSplitterApp    *)
(* (createIntelligentChunks and its helpers), the archive resolver of      *)
(* EPUBParser (parseEPUB and its helpers) and the part of the UI           *)
(* controller that drives them.                                            *)
(*                                                                         *)
(* A text is a sequence of tokens: words, and the whitespace run "\n\n"    *)
(* that combineContentWithMarkers appends after every chapter.  A chapter  *)
(* text holds words only, because extractTextContent collapses every       *)
(* whitespace run to one space and trims.                                  *)
(***************************************************************************)
EXTENDS Integers, Sequences, FiniteSets, TLC

VARIABLES
    \* ---- chunk partitioner (EPUBSplitterApp.splitIntoChunks and below)
    chapters,      \* this.currentEPUB.chapters seen by splitIntoChunks
    chunkCount,    \* parseInt(#chunk-count)
    targetWords,   \* targetWordsPerChunk
    tolerance,
    fullContent,   \* chapters sorted by spineOrder, mapped to {title,textContent}
    chunks,        \* working chunk sequence
    iteration,     \* argument of refineChunksRecursively
    pc,            \* position inside splitIntoChunks
    result,        \* value returned by createIntelligentChunks
    \* ---- archive resolver (EPUBParser.parseEPUB)
    archive,       \* the zip archive handed to parseEPUB
    rpc,           \* position inside parseEPUB
    epub,          \* the epub object under construction / returned
    manifest,      \* parseManifest's result, in Object.values order
    spine,         \* parseSpine's result
    navigation,    \* epub.navigation: null, or the flattened entries
    failure,       \* the message of the Error parseEPUB rejects with
    \* ---- UI controller (EPUBSplitterApp fields)
    currentEPUB,     \* this.currentEPUB
    currentChunks,   \* this.currentChunks
    selectedChunks,  \* this.selectedChunks
    selectedChapters,\* this.selectedChapters
    currentMode,     \* this.currentMode
    chunkCountInput, \* the text typed into #chunk-count
    chunkPreview,    \* the #chunk-preview section
    pendingOpens,    \* the openEPUB calls awaiting fetch and parse
    lastRequested,   \* history: the file of the latest openEPUB call
    \* ---- calls of the side-effect-free methods
    call,          \* the method called and its arguments
    ret,           \* <<>> until the call returns, then <<the value returned>>
    \* ---- file server (server.js)
    disk,          \* the files on the server's file system
    response       \* the response to the last request

partVars == <<chapters, chunkCount, targetWords, tolerance, fullContent,
              chunks, iteration, pc, result>>
resVars  == <<archive, rpc, epub, manifest, spine, navigation, failure>>
appVars  == <<currentEPUB, currentChunks, selectedChunks, selectedChapters,
              currentMode, chunkCountInput, chunkPreview, pendingOpens,
              lastRequested>>
callVars == <<call, ret>>
srvVars  == <<disk, response>>
vars     == <<partVars, resVars, appVars, callVars, srvVars>>

-----------------------------------------------------------------------------
(* Bounds of the model *)

MaxWords == 30        \* largest corpus, in tokens
MaxRunWords == 8      \* largest of the small corpora of the termination runs
MaxChapters == 2      \* most chapters in a chapter list
MaxChunkCount == 5    \* largest requested chunk count
MaxSpine == 2         \* most itemrefs in a spine
MaxNavEntries == 2    \* most entries in a table of contents

-----------------------------------------------------------------------------
(* Program constants *)

maxIterations == 5    \* refineChunksRecursively(..., 0, 5)
MaxSearchRange == 50  \* findOptimalSplitPoint: Math.min(50, ...)
MinMeaningfulWords == 10 \* extractChaptersFromNavigation: wordCount > 10
MissingSpineOrder == 999 \* findSpineOrder: not found

-----------------------------------------------------------------------------
(* Generic helpers *)

Min(a, b) == IF a < b THEN a ELSE b
Max(a, b) == IF a > b THEN a ELSE b

RECURSIVE SumSeq(_)
SumSeq(s) == IF s = <<>> THEN 0 ELSE Head(s) + SumSeq(Tail(s))

\* Array.prototype.slice(from, to) with 0-based, half-open indices
Slice(s, from, to) == SubSeq(s, from + 1, to)

\* Array.prototype.splice(at, del, ...ins) with a 0-based index
Splice(s, at, del, ins) ==
    SubSeq(s, 1, at) \o ins \o SubSeq(s, at + del + 1, Len(s))

\* Strings that the code parses are sequences of one-character strings
Digits == <<"0", "1", "2", "3", "4", "5", "6", "7", "8", "9">>
IsDigit(c) == \E d \in 1..10 : Digits[d] = c
DigitValue(c) == (CHOOSE d \in 1..10 : Digits[d] = c) - 1

RECURSIVE leadingDigits(_)
leadingDigits(t) ==
    IF t = <<>> \/ ~IsDigit(Head(t)) THEN <<>>
    ELSE <<Head(t)>> \o leadingDigits(Tail(t))

RECURSIVE decimalValue(_, _)
decimalValue(ds, acc) ==
    IF ds = <<>> THEN acc
    ELSE decimalValue(Tail(ds), 10 * acc + DigitValue(Head(ds)))

\* parseInt(text): an optional sign, then the leading digits; NaN without
\* a digit
parseInt(t) ==
    LET signed == t # <<>> /\ Head(t) \in {"-", "+"}
        body == IF signed THEN Tail(t) ELSE t
        ds == leadingDigits(body)
    IN IF ds = <<>> THEN [nan |-> TRUE, value |-> 0]
       ELSE [nan |-> FALSE,
             value |-> IF signed /\ Head(t) = "-"
                       THEN 0 - decimalValue(ds, 0)
                       ELSE decimalValue(ds, 0)]

-----------------------------------------------------------------------------
(* Words and texts *)

Para == "\n\n"
Whitespace == {Para, " "}

Words == {"w", "End.", "Chapter", "so;", "however", "*"}

\* further words, handed to calculateBreakPointScore directly
ScoreWords ==
    Words \cup {"chapter.", "However,", "CHAPTER", "2nd", "a\n\nb",
                "what?", "Stop!", "so:"}

\* /\w/.test(word): "*" stands for the bullet that extractTextContent
\* puts in front of every list item, a token without a word character
HasWordChar(w) == w \in ScoreWords \ {"*"}
\* /[.!?]$/
EndsSentence(w) == w \in {"End.", "chapter.", "what?", "Stop!"}
\* /[.!?;:]$/
EndsPunct(w) == w \in {"End.", "chapter.", "what?", "Stop!", "so;", "so:"}
\* w[0] === w[0].toUpperCase() && w[0].match(/[A-Z]/)
StartsUpper(w) == w \in {"End.", "Chapter", "However,", "CHAPTER", "Stop!"}
\* toLowerCase().includes('chapter')
ContainsChapter(w) == w \in {"Chapter", "chapter.", "CHAPTER"}
\* transitionWords.some(word => w.toLowerCase().startsWith(word))
StartsTransition(w) == w \in {"however", "However,"}
\* includes('\n\n')
ContainsPara(w) == w \in {Para, "a\n\nb"}

IsToken(t) == t \notin Whitespace
IsCountedWord(t) == t \notin Whitespace /\ HasWordChar(t)

\* text.split(' ').filter(w => w.length > 0): the split at single spaces,
\* which leaves the line breaks in the words
SplitWords_atSpaces(text) == SelectSeq(text, LAMBDA t : t # " ")

\* text.split(/\s+/).filter(w => w.length > 0)
SplitWords(text) == SelectSeq(text, IsToken)

\* EPUBSplitterApp.countWords
countWords(text) == Len(SplitWords(text))

\* EPUBParser.countWords: additionally requires /\w/
parserCountWords(text) == Len(SelectSeq(text, IsCountedWord))

-----------------------------------------------------------------------------
(* Chunk partitioner: pure functions *)

\* splitIntoChunks: reduce((sum, chapter) => sum + (chapter.wordCount || 0))
totalWordCount(chs) == SumSeq([i \in 1..Len(chs) |-> chs[i].wordCount])

\* Array.prototype.sort((a, b) => a.spineOrder - b.spineOrder): stable
RECURSIVE InsertBySpineOrder(_, _)
InsertBySpineOrder(sorted, ch) ==
    IF sorted = <<>> THEN <<ch>>
    ELSE IF ch.spineOrder < Head(sorted).spineOrder THEN <<ch>> \o sorted
    ELSE <<Head(sorted)>> \o InsertBySpineOrder(Tail(sorted), ch)

RECURSIVE SortBySpineOrder(_)
SortBySpineOrder(chs) ==
    IF chs = <<>> THEN <<>>
    ELSE InsertBySpineOrder(SortBySpineOrder(SubSeq(chs, 1, Len(chs) - 1)),
                            chs[Len(chs)])

\* splitIntoChunks: .map(chapter => ({title, textContent, htmlContent}))
toFullContent(chs) ==
    [i \in 1..Len(chs) |-> [title |-> chs[i].title,
                            textContent |-> chs[i].textContent]]

\* combineContentWithMarkers: the combined text and the chapter markers
RECURSIVE combinedText(_)
combinedText(content) ==
    IF content = <<>> THEN <<>>
    ELSE Head(content).textContent \o <<Para>> \o combinedText(Tail(content))

RECURSIVE chapterMarkers(_, _)
chapterMarkers(content, currentPosition) ==
    IF content = <<>> THEN <<>>
    ELSE <<[title |-> Head(content).title,
            startPosition |-> currentPosition,
            endPosition |-> currentPosition
                              + countWords(Head(content).textContent)]>>
         \o chapterMarkers(Tail(content),
              currentPosition + countWords(Head(content).textContent))

combineContentWithMarkers(content) ==
    [text |-> combinedText(content),
     chapterMarkers |-> chapterMarkers(content, 0)]

\* calculateBreakPointScore with the punctuation rule as an else-branch of
\* the sentence rule
calculateBreakPointScore_elseIf(words, splitIndex) ==
    IF splitIndex <= 0 \/ splitIndex >= Len(words) THEN 0
    ELSE LET beforeWord == words[splitIndex]
             afterWord == words[splitIndex + 1]
         IN (IF EndsSentence(beforeWord) THEN 100
             ELSE IF EndsPunct(beforeWord) THEN 60 ELSE 0)
          + (IF ContainsPara(beforeWord) \/ ContainsPara(afterWord)
             THEN 80 ELSE 0)
          + (IF StartsUpper(afterWord) THEN 40 ELSE 0)
          + (IF ContainsChapter(beforeWord) \/ ContainsChapter(afterWord)
             THEN 90 ELSE 0)
          + (IF StartsTransition(afterWord) THEN 30 ELSE 0)

\* calculateBreakPointScore
calculateBreakPointScore(words, splitIndex) ==
    IF splitIndex <= 0 \/ splitIndex >= Len(words) THEN 0
    ELSE LET beforeWord == words[splitIndex]
             afterWord == words[splitIndex + 1]
         IN (IF EndsSentence(beforeWord) THEN 100 ELSE 0)
          + (IF ContainsPara(beforeWord) \/ ContainsPara(afterWord)
             THEN 80 ELSE 0)
          + (IF EndsPunct(beforeWord) THEN 60 ELSE 0)
          + (IF StartsUpper(afterWord) THEN 40 ELSE 0)
          + (IF ContainsChapter(beforeWord) \/ ContainsChapter(afterWord)
             THEN 90 ELSE 0)
          + (IF StartsTransition(afterWord) THEN 30 ELSE 0)

\* findOptimalSplitPoint's loop taking a candidate that only ties the best
RECURSIVE scanSplit_lastBest(_, _, _, _, _)
scanSplit_lastBest(words, i, maxSplit, bestSplit, bestScore) ==
    IF i > maxSplit THEN bestSplit
    ELSE LET score == calculateBreakPointScore(words, i)
         IN IF score >= bestScore
            THEN scanSplit_lastBest(words, i + 1, maxSplit, i, score)
            ELSE scanSplit_lastBest(words, i + 1, maxSplit, bestSplit,
                                    bestScore)

\* findOptimalSplitPoint: the for loop from i to maxSplit
RECURSIVE scanSplit(_, _, _, _, _)
scanSplit(words, i, maxSplit, bestSplit, bestScore) ==
    IF i > maxSplit THEN bestSplit
    ELSE LET score == calculateBreakPointScore(words, i)
         IN IF score > bestScore
            THEN scanSplit(words, i + 1, maxSplit, i, score)
            ELSE scanSplit(words, i + 1, maxSplit, bestSplit, bestScore)

findOptimalSplitPoint(words, targetSplit) ==
    LET searchRange == Min(MaxSearchRange, Len(words) \div 10)
        minSplit == Max(1, targetSplit - searchRange)
        maxSplit == Min(Len(words) - 1, targetSplit + searchRange)
    IN scanSplit(words, minSplit, maxSplit, targetSplit,
                 calculateBreakPointScore(words, targetSplit))

\* initialChunkSplit's slice with the last slice cut like the others
initialChunk_noRemainder(words, count, wordsPerChunk, i) ==
    LET startIndex == i * wordsPerChunk
        endIndex == (i + 1) * wordsPerChunk
        chunkWords == Slice(words, startIndex, endIndex)
    IN [id |-> i + 1, words |-> chunkWords, wordCount |-> Len(chunkWords),
        startWordIndex |-> startIndex, endWordIndex |-> endIndex]

\* initialChunkSplit: the slice of index i (0-based)
initialChunk(words, count, wordsPerChunk, i) ==
    LET startIndex == i * wordsPerChunk
        endIndex == IF i = count - 1 THEN Len(words)
                    ELSE (i + 1) * wordsPerChunk
        chunkWords == Slice(words, startIndex, endIndex)
    IN [id |-> i + 1, words |-> chunkWords, wordCount |-> Len(chunkWords),
        startWordIndex |-> startIndex, endWordIndex |-> endIndex]

\* initialChunkSplit with the slice size rounded up (Array.prototype.slice
\* clamps its indices to the array)
initialChunkSplit_roundUp(fullText, count) ==
    LET words == SplitWords(fullText.text)
        wordsPerChunk == (Len(words) + count - 1) \div count
        startOf(i) == Min(i * wordsPerChunk, Len(words))
        endOf(i) == IF i = count - 1 THEN Len(words)
                    ELSE Min((i + 1) * wordsPerChunk, Len(words))
        wordsOf(i) == IF startOf(i) >= endOf(i) THEN <<>>
                      ELSE Slice(words, startOf(i), endOf(i))
    IN [i \in 1..count |->
          [id |-> i, words |-> wordsOf(i - 1),
           wordCount |-> Len(wordsOf(i - 1)),
           startWordIndex |-> (i - 1) * wordsPerChunk,
           endWordIndex |-> IF i = count THEN Len(words)
                            ELSE i * wordsPerChunk]]

initialChunkSplit(fullText, count) ==
    LET words == SplitWords(fullText.text)
        wordsPerChunk == Len(words) \div count
    IN [i \in 1..count |-> initialChunk(words, count, wordsPerChunk, i - 1)]

\* splitParts with the second half starting one word late
splitParts_dropWord(chunk, splitPoint, firstId) ==
    << [id |-> firstId,
        words |-> Slice(chunk.words, 0, splitPoint),
        wordCount |-> splitPoint,
        startWordIndex |-> chunk.startWordIndex,
        endWordIndex |-> chunk.startWordIndex + splitPoint],
       [id |-> firstId + 1,
        words |-> Slice(chunk.words, splitPoint + 1, Len(chunk.words)),
        wordCount |-> Len(Slice(chunk.words, splitPoint + 1,
                                Len(chunk.words))),
        startWordIndex |-> chunk.startWordIndex + splitPoint,
        endWordIndex |-> chunk.endWordIndex] >>

\* the two halves made of a chunk at splitPoint, numbered from firstId
splitParts(chunk, splitPoint, firstId) ==
    << [id |-> firstId,
        words |-> Slice(chunk.words, 0, splitPoint),
        wordCount |-> splitPoint,
        startWordIndex |-> chunk.startWordIndex,
        endWordIndex |-> chunk.startWordIndex + splitPoint],
       [id |-> firstId + 1,
        words |-> Slice(chunk.words, splitPoint, Len(chunk.words)),
        wordCount |-> Len(chunk.words) - splitPoint,
        startWordIndex |-> chunk.startWordIndex + splitPoint,
        endWordIndex |-> chunk.endWordIndex] >>

\* performChunkRefinement, first loop: split oversized, merge undersized
\* (i is the 0-based loop index)
RECURSIVE refinePass(_, _, _, _, _)
refinePass(chs, i, refined, minWords, maxWords) ==
    IF i >= Len(chs) THEN refined
    ELSE LET chunk == chs[i + 1]
         IN IF chunk.wordCount > maxWords
            THEN LET splitPoint == findOptimalSplitPoint(chunk.words,
                                        Len(chunk.words) \div 2)
                 IN refinePass(chs, i + 1,
                      refined \o splitParts(chunk, splitPoint,
                                            Len(refined) + 1),
                      minWords, maxWords)
            ELSE IF chunk.wordCount < minWords /\ i < Len(chs) - 1
            THEN LET nextChunk == chs[i + 2]
                     combinedWordCount == chunk.wordCount
                                          + nextChunk.wordCount
                 IN \* combinedWordCount <= maxWords * 1.2
                    IF 5 * combinedWordCount <= 6 * maxWords
                    THEN refinePass(chs, i + 2,
                           Append(refined,
                             [id |-> Len(refined) + 1,
                              words |-> chunk.words \o nextChunk.words,
                              wordCount |-> combinedWordCount,
                              startWordIndex |-> chunk.startWordIndex,
                              endWordIndex |-> nextChunk.endWordIndex]),
                           minWords, maxWords)
                    ELSE refinePass(chs, i + 1, Append(refined, chunk),
                                    minWords, maxWords)
            ELSE refinePass(chs, i + 1, Append(refined, chunk),
                            minWords, maxWords)

\* performChunkRefinement, merge loop: the index of the chunk to remove
\* (0-based; the scan runs over 1 .. length - 2)
RECURSIVE scanSmallest(_, _, _)
scanSmallest(chs, i, smallestIndex) ==
    IF i >= Len(chs) - 1 THEN smallestIndex
    ELSE IF chs[i + 1].wordCount < chs[smallestIndex + 1].wordCount
         THEN scanSmallest(chs, i + 1, i)
         ELSE scanSmallest(chs, i + 1, smallestIndex)

findSmallestIndex(chs) == scanSmallest(chs, 1, 0)

mergeTargetIndex(smallestIndex) ==
    IF smallestIndex = 0 THEN 1 ELSE smallestIndex - 1

\* mergeSmallest taking the range of the merge target alone
mergeSmallest_targetRange(chs) ==
    LET smallestIndex == findSmallestIndex(chs)
        targetIndex == mergeTargetIndex(smallestIndex)
        lo == Min(smallestIndex, targetIndex)
        hi == Max(smallestIndex, targetIndex)
        merged == [id |-> targetIndex + 1,
                   words |-> chs[lo + 1].words \o chs[hi + 1].words,
                   wordCount |-> chs[smallestIndex + 1].wordCount
                                 + chs[targetIndex + 1].wordCount,
                   startWordIndex |-> chs[targetIndex + 1].startWordIndex,
                   endWordIndex |-> chs[targetIndex + 1].endWordIndex]
    IN Splice(Splice(chs, hi, 1, <<>>), lo, 1, <<merged>>)

\* one round of the merge loop that builds the merged chunk and leaves the
\* array as it was
mergeSmallest_noSplice(chs) == chs

\* performChunkRefinement, one round of the merge loop
mergeSmallest(chs) ==
    LET smallestIndex == findSmallestIndex(chs)
        targetIndex == mergeTargetIndex(smallestIndex)
        lo == Min(smallestIndex, targetIndex)
        hi == Max(smallestIndex, targetIndex)
        merged == [id |-> targetIndex + 1,
                   words |-> chs[lo + 1].words \o chs[hi + 1].words,
                   wordCount |-> chs[smallestIndex + 1].wordCount
                                 + chs[targetIndex + 1].wordCount,
                   startWordIndex |-> Min(chs[smallestIndex + 1].startWordIndex,
                                          chs[targetIndex + 1].startWordIndex),
                   endWordIndex |-> Max(chs[smallestIndex + 1].endWordIndex,
                                        chs[targetIndex + 1].endWordIndex)]
    IN Splice(Splice(chs, hi, 1, <<>>), lo, 1, <<merged>>)

\* performChunkRefinement, split loop: the index of the chunk to split
RECURSIVE scanLargest(_, _, _)
scanLargest(chs, i, largestIndex) ==
    IF i >= Len(chs) THEN largestIndex
    ELSE IF chs[i + 1].wordCount > chs[largestIndex + 1].wordCount
         THEN scanLargest(chs, i + 1, i)
         ELSE scanLargest(chs, i + 1, largestIndex)

findLargestIndex(chs) == scanLargest(chs, 1, 0)

\* performChunkRefinement, one round of the split loop
splitLargest(chs) ==
    LET largestIndex == findLargestIndex(chs)
        chunk == chs[largestIndex + 1]
        splitPoint == findOptimalSplitPoint(chunk.words,
                                            Len(chunk.words) \div 2)
    IN Splice(chs, largestIndex, 1,
              splitParts(chunk, splitPoint, largestIndex + 1))

\* performChunkRefinement: refinedChunks.forEach((chunk, index) => ...)
renumber(chs) == [i \in 1..Len(chs) |-> [chs[i] EXCEPT !.id = i]]

\* needsRefinement looking at the chunk count alone
needsRefinement_countOnly(chs, targetCount, target, tol) ==
    Len(chs) # targetCount

\* needsRefinement with the band checked on the first chunk alone
needsRefinement_firstChunk(chs, targetCount, target, tol) ==
    \/ /\ chs # <<>>
       /\ \/ chs[1].wordCount < target - tol
          \/ chs[1].wordCount > target + tol
    \/ Len(chs) # targetCount

\* refineChunksRecursively: the needsRefinement flag
needsRefinement(chs, targetCount, target, tol) ==
    \/ \E i \in 1..Len(chs) :
          \/ chs[i].wordCount < target - tol
          \/ chs[i].wordCount > target + tol
    \/ Len(chs) # targetCount

\* findChapterAtPosition: the 1-based index of the chapter found by the
\* loop, 0 when the loop ends without returning
RECURSIVE scanChapters(_, _, _, _)
scanChapters(wordPosition, content, i, currentPosition) ==
    IF i > Len(content) THEN 0
    ELSE LET chapterWordCount == countWords(content[i].textContent)
         IN IF wordPosition >= currentPosition
               /\ wordPosition < currentPosition + chapterWordCount
            THEN i
            ELSE scanChapters(wordPosition, content, i + 1,
                              currentPosition + chapterWordCount)

\* findChapterAtPosition, then startChapter?.title || 'Unknown'
findChapterAtPosition(wordPosition, originalContent) ==
    LET found == scanChapters(wordPosition, originalContent, 1, 0)
    IN IF found # 0 THEN originalContent[found].title
       ELSE IF originalContent = <<>> THEN "Unknown"
       ELSE originalContent[Len(originalContent)].title

\* formatFinalChunks locating the end chapter at endWordIndex itself
formatFinalChunks_endIndex(chs, originalContent) ==
    [i \in 1..Len(chs) |->
       [id |-> chs[i].id,
        textContent |-> chs[i].words,
        wordCount |-> chs[i].wordCount,
        startChapter |-> findChapterAtPosition(chs[i].startWordIndex,
                                               originalContent),
        endChapter |-> findChapterAtPosition(chs[i].endWordIndex,
                                             originalContent)]]

\* formatFinalChunks
formatFinalChunks(chs, originalContent) ==
    [i \in 1..Len(chs) |->
       [id |-> chs[i].id,
        textContent |-> chs[i].words,
        wordCount |-> chs[i].wordCount,
        startChapter |-> findChapterAtPosition(chs[i].startWordIndex,
                                               originalContent),
        endChapter |-> findChapterAtPosition(chs[i].endWordIndex - 1,
                                             originalContent)]]

\* performChunkRefinement: the condition of the merge loop
tooManyChunks_offByOne(chs, targetCount) == Len(chs) > targetCount + 1
tooManyChunks(chs, targetCount) == Len(chs) > targetCount

\* performChunkRefinement: the condition of the split loop
tooFewChunks(chs, targetCount) == Len(chs) < targetCount

\* performChunkRefinement: while (refinedChunks.length > targetCount)
RECURSIVE mergeLoop(_, _)
mergeLoop(chs, targetCount) ==
    IF tooManyChunks(chs, targetCount)
    THEN mergeLoop(mergeSmallest(chs), targetCount)
    ELSE chs

\* performChunkRefinement: while (refinedChunks.length < targetCount)
RECURSIVE splitLoop(_, _)
splitLoop(chs, targetCount) ==
    IF tooFewChunks(chs, targetCount)
    THEN splitLoop(splitLargest(chs), targetCount)
    ELSE chs

performChunkRefinement(chs, targetCount, target, tol) ==
    renumber(splitLoop(mergeLoop(
        refinePass(chs, 0, <<>>, target - tol, target + tol),
        targetCount), targetCount))

RECURSIVE refineChunksRecursively(_, _, _, _, _, _)
refineChunksRecursively(chs, targetCount, target, tol, iter, maxIter) ==
    IF iter >= maxIter THEN chs
    ELSE IF ~needsRefinement(chs, targetCount, target, tol) THEN chs
    ELSE refineChunksRecursively(
             performChunkRefinement(chs, targetCount, target, tol),
             targetCount, target, tol, iter + 1, maxIter)

createIntelligentChunks(content, count, target, tol) ==
    formatFinalChunks(
        refineChunksRecursively(
            initialChunkSplit(combineContentWithMarkers(content), count),
            count, target, tol, 0, maxIterations),
        content)

-----------------------------------------------------------------------------
(* Chapter lists handed to the partitioner *)

Patterns == {"plain", "prose", "list", "titled"}

\* the word at position i (1-based) of a corpus written in pattern p
patternWord(p, i) ==
    CASE p = "plain" -> "w"
      [] p = "prose" -> IF i % 3 = 0 THEN "End." ELSE "w"
      [] p = "list" -> IF i % 6 = 1 THEN "*" ELSE "w"
      [] p = "titled" -> IF i % 7 = 1 THEN "Chapter"
                         ELSE IF i % 7 = 4 THEN "so;"
                         ELSE IF i % 7 = 5 THEN "however"
                         ELSE "w"

patternCorpus(p, n) == [i \in 1..n |-> patternWord(p, i)]

\* the places where one chapter may end and the next begin: every third
\* word position, which includes empty chapters and a one-word last chapter
CutPoints(n) == {x \in 0..n : x % 3 = 0}

\* the nondecreasing cut points that divide n words among c chapters
Cuts(c, n) ==
    {f \in [1..(c - 1) -> CutPoints(n)] :
        \A i \in 1..(c - 1) : \A j \in 1..(c - 1) : i <= j => f[i] <= f[j]}

\* the chapter records of a corpus, in reading order; a chapter record is
\* what extractChaptersFromNavigation / extractChaptersFromSpine push
chapterList(p, n, c, cuts) ==
    [i \in 1..c |->
       LET from == IF i = 1 THEN 0 ELSE cuts[i - 1]
           to == IF i = c THEN n ELSE cuts[i]
           text == Slice(patternCorpus(p, n), from, to)
       IN [id |-> i, title |-> "Chapter " \o ToString(i),
           spineOrder |-> i - 1, textContent |-> text,
           wordCount |-> parserCountWords(text)]]

Reverse(s) == [i \in 1..Len(s) |-> s[Len(s) + 1 - i]]

ChapterLists ==
    UNION {UNION {UNION {UNION {
        {chapterList(p, n, c, cuts), Reverse(chapterList(p, n, c, cuts))} :
            cuts \in Cuts(c, n)} :
            c \in (IF n = 0 THEN 0 ELSE 1)..MaxChapters} :
            n \in 0..MaxWords} :
            p \in Patterns}

-----------------------------------------------------------------------------
(* Idle values of the three parts *)

\* epub.navigation = null
NullNavigation == [isNull |-> TRUE, items |-> <<>>]

NoEpub == [filename |-> "none", chapters |-> <<>>, errors |-> <<>>]

PartIdle ==
    /\ chapters = <<>> /\ chunkCount = 0 /\ targetWords = 0 /\ tolerance = 0
    /\ fullContent = <<>> /\ chunks = <<>> /\ iteration = 0 /\ pc = "idle"
    /\ result = <<>>

ResIdle ==
    /\ archive = "none" /\ rpc = "idle" /\ epub = NoEpub
    /\ manifest = <<>> /\ spine = <<>> /\ navigation = NullNavigation
    /\ failure = ""

\* no method call is under way
NoCall == [op |-> "none"]

CallIdle == call = NoCall /\ ret = <<>>

\* no request has been answered
NoResponse == [method |-> "none", filename |-> <<>>, status |-> 0,
               path |-> <<>>]

\* the file server is not running
SrvIdle == disk = {} /\ response = NoResponse

AppIdle ==
    /\ currentEPUB = NoEpub /\ currentChunks = <<>> /\ selectedChunks = {}
    /\ selectedChapters = {} /\ currentMode = "chapters"
    /\ chunkCountInput = <<>> /\ chunkPreview = "hidden"
    /\ pendingOpens = {}
    /\ lastRequested = "none"

-----------------------------------------------------------------------------
(* Chunk partitioner: the steps of splitIntoChunks *)

PartInit ==
    /\ chapters \in ChapterLists
    /\ chunkCount \in 2..MaxChunkCount
    /\ targetWords = 0 /\ tolerance = 0
    /\ fullContent = <<>> /\ chunks = <<>> /\ iteration = 0
    /\ pc = "start" /\ result = <<>>
    /\ ResIdle /\ AppIdle /\ CallIdle /\ SrvIdle

\* splitIntoChunks up to and including initialChunkSplit
BeginSplit ==
    /\ pc = "start"
    /\ targetWords' = totalWordCount(chapters) \div chunkCount
    /\ tolerance' = (totalWordCount(chapters) \div chunkCount) \div 10
    /\ chapters' = SortBySpineOrder(chapters)
    /\ fullContent' = toFullContent(SortBySpineOrder(chapters))
    /\ chunks' = initialChunkSplit(
                    combineContentWithMarkers(
                        toFullContent(SortBySpineOrder(chapters))),
                    chunkCount)
    /\ iteration' = 0
    /\ pc' = "refine"
    /\ UNCHANGED <<chunkCount, result, resVars, appVars, callVars,
                   srvVars>>

\* refineChunksRecursively returns: budget used up, or nothing to refine
RefineReturn ==
    /\ pc = "refine"
    /\ \/ iteration >= maxIterations
       \/ ~needsRefinement(chunks, chunkCount, targetWords, tolerance)
    /\ pc' = "format"
    /\ UNCHANGED <<chapters, chunkCount, targetWords, tolerance, fullContent,
                   chunks, iteration, result, resVars, appVars, callVars,
                   srvVars>>

\* refineChunksRecursively calls performChunkRefinement; its first loop
RefinePass ==
    /\ pc = "refine"
    /\ iteration < maxIterations
    /\ needsRefinement(chunks, chunkCount, targetWords, tolerance)
    /\ chunks' = refinePass(chunks, 0, <<>>, targetWords - tolerance,
                            targetWords + tolerance)
    /\ pc' = "merge"
    /\ UNCHANGED <<chapters, chunkCount, targetWords, tolerance, fullContent,
                   iteration, result, resVars, appVars, callVars,
                   srvVars>>

\* one round of while (refinedChunks.length > targetCount)
MergeStep ==
    /\ pc = "merge"
    /\ tooManyChunks(chunks, chunkCount)
    /\ chunks' = mergeSmallest(chunks)
    /\ UNCHANGED <<chapters, chunkCount, targetWords, tolerance, fullContent,
                   iteration, pc, result, resVars, appVars, callVars,
                   srvVars>>

MergeExit ==
    /\ pc = "merge"
    /\ ~tooManyChunks(chunks, chunkCount)
    /\ pc' = "split"
    /\ UNCHANGED <<chapters, chunkCount, targetWords, tolerance, fullContent,
                   chunks, iteration, result, resVars, appVars, callVars,
                   srvVars>>

\* one round of while (refinedChunks.length < targetCount)
SplitStep ==
    /\ pc = "split"
    /\ tooFewChunks(chunks, chunkCount)
    /\ chunks' = splitLargest(chunks)
    /\ UNCHANGED <<chapters, chunkCount, targetWords, tolerance, fullContent,
                   iteration, pc, result, resVars, appVars, callVars,
                   srvVars>>

\* the split loop ends; renumber; the recursive call with iteration + 1
SplitExit ==
    /\ pc = "split"
    /\ ~tooFewChunks(chunks, chunkCount)
    /\ chunks' = renumber(chunks)
    /\ iteration' = iteration + 1
    /\ pc' = "refine"
    /\ UNCHANGED <<chapters, chunkCount, targetWords, tolerance, fullContent,
                   result, resVars, appVars, callVars,
                   srvVars>>

\* formatFinalChunks; createIntelligentChunks returns
FormatFinal ==
    /\ pc = "format"
    /\ result' = formatFinalChunks(chunks, fullContent)
    /\ pc' = "done"
    /\ UNCHANGED <<chapters, chunkCount, targetWords, tolerance, fullContent,
                   chunks, iteration, resVars, appVars, callVars,
                   srvVars>>

PartNext ==
    \/ BeginSplit
    \/ RefineReturn
    \/ RefinePass
    \/ MergeStep
    \/ MergeExit
    \/ SplitStep
    \/ SplitExit
    \/ FormatFinal

SpecPartition == PartInit /\ [][PartNext]_vars

\* the tokens of a chapter list
tokenCount(chs) == SumSeq([i \in 1..Len(chs) |-> Len(chs[i].textContent)])

\* the calls of splitIntoChunks on the corpora of at most MaxRunWords
\* tokens and on the largest corpora
PartRunsInit ==
    /\ PartInit
    /\ tokenCount(chapters) <= MaxRunWords \/ tokenCount(chapters) = MaxWords

\* splitIntoChunks is one synchronous call: once begun, it keeps running
SpecPartitionRuns == PartRunsInit /\ [][PartNext]_vars /\ WF_vars(PartNext)

-----------------------------------------------------------------------------
(* Archive resolver: archives *)

(***************************************************************************)
(* An archive is what JSZip and DOMParser make of the file:                *)
(*   loads      JSZip.loadAsync resolves                                   *)
(*   container  META-INF/container.xml is in the zip                       *)
(*   rootfile   "absent": no rootfile element; "noFullPath": a rootfile    *)
(*              without a full-path attribute; "named": full-path = o/p    *)
(*   opfInZip   zip.files[opfPath] exists (for "noFullPath": a file whose  *)
(*              name is "null")                                            *)
(*   docs       the content documents: manifest id, href, the state of     *)
(*              the file ("missing" from the zip, "corrupt": reading it    *)
(*              rejects, "short", "long") and its text                     *)
(*   spineRefs  the idref of every itemref, in document order              *)
(*   nav3, ncx  the EPUB3 nav document and the NCX: "absent" from the      *)
(*              manifest, "missing" from the zip, "broken" (no toc nav,    *)
(*              no navMap) or "ok"                                         *)
(*   toc        the entries of the table of contents: title and raw href   *)
(***************************************************************************)

SeqsUpTo(S, n) == UNION {[1..k -> S] : k \in 0..n}

opfPathNamed == <<"o", "/", "p">>
navHref == <<"n", "a", "v">>
ncxHref == <<"n", "c", "x">>
danglingId == <<"z", "9">>

DocStates == {"missing", "corrupt", "short", "long"}

\* the plain text extractTextContent derives from a content document
docText(state) ==
    IF state = "short" THEN patternCorpus("list", 12)
    ELSE IF state = "long" THEN patternCorpus("prose", 11)
    ELSE <<>>

Doc1Ids == {<<"c", "1">>, <<"c", "3">>, <<"x">>}
doc2Id == <<"c", "2">>

TocHrefs == {<<"a">>, <<"a", "#", "s">>, <<"b">>, <<>>}

mkDocs(id1, s1, s2) ==
    << [id |-> id1, href |-> <<"a">>, file |-> s1, text |-> docText(s1)],
       [id |-> doc2Id, href |-> <<"b">>, file |-> s2, text |-> docText(s2)] >>

mkToc(hrefs) ==
    [i \in 1..Len(hrefs) |-> [title |-> "Entry " \o ToString(i),
                              href |-> hrefs[i]]]

mkArchive(docs, spineRefs, nav3, ncx, toc) ==
    [loads |-> TRUE, container |-> TRUE, rootfile |-> "named",
     opfInZip |-> TRUE, docs |-> docs, spineRefs |-> spineRefs,
     nav3 |-> nav3, ncx |-> ncx, toc |-> toc]

\* the table of contents that the resolver reads, if any
tocIsRead(nav3, ncx) ==
    \/ nav3 = "ok"
    \/ nav3 \in {"absent", "missing"} /\ ncx = "ok"

NavStates == {"absent", "missing", "broken", "ok"}
NcxStates == {"absent", "broken", "ok"}

\* a table of contents that is never read is left empty
NavChoices ==
    {c \in NavStates \X NcxStates \X SeqsUpTo(TocHrefs, MaxNavEntries) :
        ~tocIsRead(c[1], c[2]) => c[3] = <<>>}

SpineChoices(id1) == SeqsUpTo({id1, doc2Id, danglingId}, MaxSpine)

\* a is an archive without a structural defect
ReadableArchive(a) ==
    \E id1 \in Doc1Ids, s1 \in DocStates, s2 \in DocStates, c \in NavChoices :
        \E sp \in SpineChoices(id1) :
            a = mkArchive(mkDocs(id1, s1, s2), sp, c[1], c[2], mkToc(c[3]))

defaultArchive ==
    mkArchive(mkDocs(<<"c", "1">>, "long", "long"), <<<<"c", "1">>, doc2Id>>,
              "ok", "absent", mkToc(<< <<"a">>, <<"b">> >>))

\* archives with a structural defect
DefectiveArchives ==
    { [defaultArchive EXCEPT !.loads = FALSE],
      [defaultArchive EXCEPT !.container = FALSE],
      [defaultArchive EXCEPT !.rootfile = "absent"],
      [defaultArchive EXCEPT !.rootfile = "noFullPath", !.opfInZip = FALSE],
      [defaultArchive EXCEPT !.rootfile = "noFullPath"],
      [defaultArchive EXCEPT !.opfInZip = FALSE] }

-----------------------------------------------------------------------------
(* Archive resolver: pure functions *)

\* String.prototype.includes / endsWith on sequences of characters
Includes(str, sub) ==
    \E i \in 0..(Len(str) - Len(sub)) : SubSeq(str, i + 1, i + Len(sub)) = sub

EndsWith(str, sub) ==
    /\ Len(sub) <= Len(str)
    /\ SubSeq(str, Len(str) - Len(sub) + 1, Len(str)) = sub

\* String.prototype.lastIndexOf(c), 0-based, -1 when absent
lastIndexOf(str, c) ==
    IF \E i \in 1..Len(str) : str[i] = c
    THEN (CHOOSE i \in 1..Len(str) :
              str[i] = c /\ \A j \in (i + 1)..Len(str) : str[j] # c) - 1
    ELSE 0 - 1

\* str.split(c)[0]
RECURSIVE beforeFirst(_, _)
beforeFirst(str, c) ==
    IF str = <<>> \/ Head(str) = c THEN <<>>
    ELSE <<Head(str)>> \o beforeFirst(Tail(str), c)

\* str.split(c)[1], for a str that includes c
afterFirst(str, c) ==
    beforeFirst(SubSeq(str, Len(beforeFirst(str, c)) + 2, Len(str)), c)

\* str.split(c).pop()
afterLast(str, c) == SubSeq(str, lastIndexOf(str, c) + 2, Len(str))

\* parseEPUB: opfPath.substring(0, opfPath.lastIndexOf('/') + 1)
basePathOf(opfPath) == SubSeq(opfPath, 1, lastIndexOf(opfPath, "/") + 1)

\* the item elements of the package document, in document order
opfItems(a) ==
    [i \in 1..Len(a.docs) |->
        [id |-> a.docs[i].id, href |-> a.docs[i].href,
         mediaType |-> "application/xhtml+xml", properties |-> <<>>]]
    \o (IF a.nav3 = "absent" THEN <<>>
        ELSE <<[id |-> <<"t", "o", "c">>, href |-> navHref,
                mediaType |-> "application/xhtml+xml",
                properties |-> <<"n", "a", "v">>]>>)
    \o (IF a.ncx = "absent" THEN <<>>
        ELSE <<[id |-> <<"n", "c", "x">>, href |-> ncxHref,
                mediaType |-> "application/x-dtbncx+xml",
                properties |-> <<>>]>>)

\* zip.files[path], for a path below the base path
zipHasFile(a, path) ==
    \/ \E i \in 1..Len(a.docs) :
          /\ path = basePathOf(opfPathNamed) \o a.docs[i].href
          /\ a.docs[i].file # "missing"
    \/ path = basePathOf(opfPathNamed) \o navHref
         /\ a.nav3 \in {"broken", "ok"}
    \/ path = basePathOf(opfPathNamed) \o ncxHref
         /\ a.ncx \in {"broken", "ok"}

\* the content document stored under a path
docAt(a, path) ==
    a.docs[CHOOSE i \in 1..Len(a.docs) :
              path = basePathOf(opfPathNamed) \o a.docs[i].href]

\* parseEPUB without the check that the package document is in the zip
structuralError_noOpfCheck(a) ==
    IF ~a.loads THEN "Corrupted zip"
    ELSE IF ~a.container
    THEN "Missing META-INF/container.xml - not a valid EPUB"
    ELSE IF a.rootfile = "absent" THEN "No rootfile found in container.xml"
    ELSE ""

\* parseEPUB: the Error thrown before the manifest is parsed, "" if none
structuralError(a) ==
    IF ~a.loads THEN "Corrupted zip"
    ELSE IF ~a.container
    THEN "Missing META-INF/container.xml - not a valid EPUB"
    ELSE IF a.rootfile = "absent" THEN "No rootfile found in container.xml"
    ELSE IF ~a.opfInZip THEN "OPF file not found"
    ELSE IF a.rootfile = "noFullPath"
    THEN "Cannot read properties of null (reading 'substring')"
    ELSE ""

\* parseManifest
parseManifest(items, basePath) ==
    LET kept == SelectSeq(items, LAMBDA it : it.id # <<>> /\ it.href # <<>>)
    IN [i \in 1..Len(kept) |->
          [id |-> kept[i].id, href |-> basePath \o kept[i].href,
           mediaType |-> kept[i].mediaType,
           properties |-> kept[i].properties]]

\* parseSpine
parseSpine(refs) ==
    LET idx == SelectSeq([i \in 1..Len(refs) |-> i],
                         LAMBDA i : refs[i] # <<>>)
    IN [k \in 1..Len(idx) |-> [idref |-> refs[idx[k]], order |-> idx[k] - 1]]

\* Array.prototype.find over a sequence: the 1-based index, 0 if none
findIndex(seq, Test(_)) ==
    IF \E i \in 1..Len(seq) : Test(seq[i])
    THEN CHOOSE i \in 1..Len(seq) :
             Test(seq[i]) /\ \A j \in 1..(i - 1) : ~Test(seq[j])
    ELSE 0

\* parseNavigationList / parseNCXNavPoints: the flattened entries; kind is
\* "nav" or "ncx"
parseNavigationList(toc, kind) ==
    [i \in 1..Len(toc) |->
        [id |-> <<kind, "root", i - 1, 0>>,
         title |-> toc[i].title,
         href |-> beforeFirst(toc[i].href, "#")]]

\* parseNavigation that goes on to the NCX when the nav document has no toc
parseNavigation_ncxRetry(a, mf) ==
    IF a.nav3 = "ok"
    THEN [threw |-> FALSE, message |-> "",
          items |-> [isNull |-> FALSE,
                     items |-> parseNavigationList(a.toc, "nav")]]
    ELSE IF a.ncx = "ok"
    THEN [threw |-> FALSE, message |-> "",
          items |-> [isNull |-> FALSE,
                     items |-> parseNavigationList(a.toc, "ncx")]]
    ELSE IF a.ncx = "broken"
    THEN [threw |-> TRUE, message |-> "No navMap found in NCX file",
          items |-> NullNavigation]
    ELSE [threw |-> FALSE, message |-> "", items |-> NullNavigation]

\* parseNavigation: [threw, message, items]; items is null when no
\* navigation source is located
parseNavigation(a, mf) ==
    LET navItem == findIndex(mf, LAMBDA it :
                       Includes(it.properties, <<"n", "a", "v">>))
        ncxItem == findIndex(mf, LAMBDA it :
                       it.mediaType = "application/x-dtbncx+xml")
    IN IF navItem # 0 /\ zipHasFile(a, mf[navItem].href)
       THEN IF a.nav3 = "broken"
            THEN [threw |-> TRUE,
                  message |-> "No TOC navigation found in nav document",
                  items |-> NullNavigation]
            ELSE [threw |-> FALSE, message |-> "",
                  items |-> [isNull |-> FALSE,
                             items |-> parseNavigationList(a.toc, "nav")]]
       ELSE IF ncxItem # 0 /\ zipHasFile(a, mf[ncxItem].href)
       THEN IF a.ncx = "broken"
            THEN [threw |-> TRUE,
                  message |-> "No navMap found in NCX file",
                  items |-> NullNavigation]
            ELSE [threw |-> FALSE, message |-> "",
                  items |-> [isNull |-> FALSE,
                             items |-> parseNavigationList(a.toc, "ncx")]]
       ELSE [threw |-> FALSE, message |-> "", items |-> NullNavigation]

\* findSpineOrder
findSpineOrder(mf, href) ==
    LET entry == findIndex(mf, LAMBDA it : it.href = href)
    IN IF entry = 0 THEN MissingSpineOrder
       ELSE LET n == parseInt(SelectSeq(mf[entry].id, IsDigit))
            IN IF n.nan THEN 0 ELSE n.value

\* extractFragmentContent: the section that starts at the element with the
\* fragment id; the whole document when there is none
extractFragmentContent(text, fragmentId) ==
    IF fragmentId = <<"s">>
    THEN SubSeq(text, Len(text) \div 2 + 1, Len(text))
    ELSE text

\* extractChaptersFromNavigation: wordCount > 10
isMeaningful_atLeast(wordCount) == wordCount >= MinMeaningfulWords
isMeaningful(wordCount) == wordCount > MinMeaningfulWords

\* extractChaptersFromNavigation: the for loop from entry i (1-based).
\* A chapter record carries src, the archive path it was read from, which
\* the code's record does not hold.
RECURSIVE navLoop(_, _, _, _, _, _)
navLoop(a, mf, nav, i, processedFiles, chs) ==
    IF i > Len(nav) THEN chs
    ELSE
      LET navItem == nav[i]
          m == findIndex(mf, LAMBDA it :
                   \/ EndsWith(it.href, navItem.href)
                   \/ Includes(it.href, beforeFirst(navItem.href, "#")))
      IN IF m = 0 \/ ~zipHasFile(a, mf[m].href)
         THEN navLoop(a, mf, nav, i + 1, processedFiles, chs)
         ELSE
           LET fileKey == mf[m].href \o <<"#">> \o navItem.href
           IN IF fileKey \in processedFiles
              THEN navLoop(a, mf, nav, i + 1, processedFiles, chs)
              ELSE IF mf[m].href = basePathOf(opfPathNamed) \o navHref
                      \/ mf[m].href = basePathOf(opfPathNamed) \o ncxHref
                      \/ docAt(a, mf[m].href).file = "corrupt"
              THEN \* extractHTMLContent throws or finds no text
                   navLoop(a, mf, nav, i + 1,
                           processedFiles \cup {fileKey}, chs)
              ELSE
                LET full == docAt(a, mf[m].href).text
                    textContent ==
                      IF Includes(navItem.href, <<"#">>)
                      THEN extractFragmentContent(full,
                               afterFirst(navItem.href, "#"))
                      ELSE full
                    wordCount == parserCountWords(textContent)
                IN navLoop(a, mf, nav, i + 1,
                     processedFiles \cup {fileKey},
                     IF isMeaningful(wordCount)
                     THEN Append(chs,
                            [id |-> navItem.id,
                             title |-> navItem.title,
                             textContent |-> textContent,
                             wordCount |-> wordCount,
                             spineOrder |-> findSpineOrder(mf, mf[m].href),
                             src |-> mf[m].href])
                     ELSE chs)

extractChaptersFromNavigation(a, mf, nav) ==
    navLoop(a, mf, nav, 1, {}, <<>>)

\* extractChaptersFromSpine whose loop ends at the first extraction that
\* throws
RECURSIVE spineLoop_abortOnThrow(_, _, _, _, _)
spineLoop_abortOnThrow(a, mf, sp, i, chs) ==
    IF i >= Len(sp) THEN chs
    ELSE
      LET m == findIndex(mf, LAMBDA it : it.id = sp[i + 1].idref)
      IN IF m = 0 \/ ~zipHasFile(a, mf[m].href)
         THEN spineLoop_abortOnThrow(a, mf, sp, i + 1, chs)
         ELSE IF docAt(a, mf[m].href).file = "corrupt"
         THEN chs
         ELSE
           LET textContent == docAt(a, mf[m].href).text
           IN spineLoop_abortOnThrow(a, mf, sp, i + 1,
                Append(chs,
                  [id |-> <<"spine", i>>,
                   title |-> "Chapter " \o ToString(i + 1),
                   textContent |-> textContent,
                   wordCount |-> parserCountWords(textContent),
                   spineOrder |-> i,
                   src |-> mf[m].href]))

\* extractChaptersFromSpine: the for loop from entry i (0-based)
RECURSIVE spineLoop(_, _, _, _, _)
spineLoop(a, mf, sp, i, chs) ==
    IF i >= Len(sp) THEN chs
    ELSE
      LET m == findIndex(mf, LAMBDA it : it.id = sp[i + 1].idref)
      IN IF m = 0 \/ ~zipHasFile(a, mf[m].href)
         THEN spineLoop(a, mf, sp, i + 1, chs)
         ELSE IF docAt(a, mf[m].href).file = "corrupt"
         THEN spineLoop(a, mf, sp, i + 1, chs)
         ELSE
           LET textContent == docAt(a, mf[m].href).text
           IN spineLoop(a, mf, sp, i + 1,
                Append(chs,
                  [id |-> <<"spine", i>>,
                   title |-> "Chapter " \o ToString(i + 1),
                   textContent |-> textContent,
                   wordCount |-> parserCountWords(textContent),
                   spineOrder |-> i,
                   src |-> mf[m].href]))

\* extractChaptersFromSpine with the filter of the navigation path
extractChaptersFromSpine_meaningfulOnly(a, mf, sp) ==
    SelectSeq(spineLoop(a, mf, sp, 0, <<>>),
              LAMBDA ch : isMeaningful(ch.wordCount))

extractChaptersFromSpine(a, mf, sp) == spineLoop(a, mf, sp, 0, <<>>)

\* extractChapters
extractChapters(a, mf, sp, nav) ==
    IF ~nav.isNull /\ Len(nav.items) > 0
    THEN extractChaptersFromNavigation(a, mf, nav.items)
    ELSE extractChaptersFromSpine(a, mf, sp)

-----------------------------------------------------------------------------
(* Archive resolver: the steps of parseEPUB *)

ResInit ==
    /\ \/ ReadableArchive(archive)
       \/ archive \in DefectiveArchives
    /\ rpc = "start"
    /\ epub = NoEpub
    /\ manifest = <<>> /\ spine = <<>> /\ navigation = NullNavigation
    /\ failure = ""
    /\ PartIdle /\ AppIdle /\ CallIdle /\ SrvIdle

\* parseEPUB throws before the manifest is parsed; the catch block rethrows
PackageFail ==
    /\ rpc = "start"
    /\ structuralError(archive) # ""
    /\ failure' = "EPUB parsing failed: " \o structuralError(archive)
    /\ rpc' = "failed"
    /\ UNCHANGED <<archive, epub, manifest, spine, navigation, partVars,
                   appVars, callVars,
                   srvVars>>

\* parseEPUB up to parseSpine
PackageParsed ==
    /\ rpc = "start"
    /\ structuralError(archive) = ""
    /\ epub' = [filename |-> "book.epub", chapters |-> <<>>,
                errors |-> <<>>]
    /\ manifest' = parseManifest(opfItems(archive),
                                 basePathOf(opfPathNamed))
    /\ spine' = parseSpine(archive.spineRefs)
    /\ rpc' = "package"
    /\ UNCHANGED <<archive, navigation, failure, partVars, appVars, callVars,
                   srvVars>>

\* parseEPUB from parseNavigation to the return
ResolveChapters ==
    /\ rpc = "package"
    /\ LET parsed == parseNavigation(archive, manifest)
       IN /\ navigation' = parsed.items
          /\ epub' = [epub EXCEPT
                !.errors = IF parsed.threw
                           THEN Append(@, "Navigation parsing failed: "
                                          \o parsed.message)
                           ELSE @,
                !.chapters = extractChapters(archive, manifest, spine,
                                             parsed.items)]
    /\ rpc' = "done"
    /\ UNCHANGED <<archive, manifest, spine, failure, partVars, appVars, callVars,
                   srvVars>>

ResNext ==
    \/ PackageFail
    \/ PackageParsed
    \/ ResolveChapters

SpecResolve == ResInit /\ [][ResNext]_vars

-----------------------------------------------------------------------------
(* UI controller: the handlers of EPUBSplitterApp *)

\* the files of the file list, and what parseEPUB returns for each
Files == {"a.epub", "b.epub", "bad.epub"}

parsedBook(f) ==
    CASE f = "a.epub" ->
           [filename |-> f,
            chapters |-> Reverse(chapterList("list", 13, 2, <<6>>)),
            errors |-> <<>>]
      [] f = "b.epub" ->
           [filename |-> f,
            chapters |-> chapterList("prose", 8, 1, <<>>),
            errors |-> <<>>]

parseFails(f) == f = "bad.epub"

\* the texts a user types into #chunk-count
ChunkCountTexts ==
    { <<>>, <<"-", "1">>, <<"0">>, <<"1">>, <<"2">>, <<"2", ".", "7">> }

\* calculateChunks: isNaN(chunkCount) || chunkCount < 2
invalidChunkCount(parsed) == parsed.nan \/ parsed.value < 2

chunkIds(chs) == {chs[i].id : i \in 1..Len(chs)}
chapterIds(chs) == {chs[i].id : i \in 1..Len(chs)}

\* createIntelligentChunks for a chunk count that the arithmetic of the
\* model does not cover.  NaN: every comparison with the count is false,
\* so no chunk is made and five refinements change nothing.  0: no chunk
\* is made and chunks.length === targetCount.  Below 0: no chunk is made,
\* the merge loop runs with an empty array and reads
\* refinedChunks[0].words, which throws a TypeError.
splitOutcome(content, parsed, target, tol) ==
    IF parsed.nan \/ parsed.value = 0
    THEN [threw |-> FALSE, chunks |-> <<>>]
    ELSE IF parsed.value < 0
    THEN [threw |-> TRUE, chunks |-> <<>>]
    ELSE [threw |-> FALSE,
          chunks |-> createIntelligentChunks(content, parsed.value,
                                             target, tol)]

AppInit ==
    /\ AppIdle
    /\ PartIdle
    /\ ResIdle
    /\ CallIdle
    /\ SrvIdle

\* openEPUB up to its first await
OpenRequest(f) ==
    /\ f \notin pendingOpens
    /\ pendingOpens' = pendingOpens \cup {f}
    /\ lastRequested' = f
    /\ UNCHANGED <<currentEPUB, currentChunks, selectedChunks,
                   selectedChapters, currentMode, chunkCountInput,
                   chunkPreview, partVars, resVars, callVars,
                   srvVars>>

\* openEPUB after parseEPUB resolved
OpenSucceed(f) ==
    /\ f \in pendingOpens
    /\ ~parseFails(f)
    /\ pendingOpens' = pendingOpens \ {f}
    /\ currentEPUB' = parsedBook(f)
    /\ selectedChapters' = {}
    /\ currentMode' = "chapters"
    /\ UNCHANGED <<lastRequested, currentChunks, selectedChunks, chunkCountInput,
                   chunkPreview, partVars, resVars, callVars,
                   srvVars>>

\* openEPUB after parseEPUB rejected: the catch block
OpenFail(f) ==
    /\ f \in pendingOpens
    /\ parseFails(f)
    /\ pendingOpens' = pendingOpens \ {f}
    /\ UNCHANGED <<lastRequested, currentEPUB, currentChunks, selectedChunks,
                   selectedChapters, currentMode, chunkCountInput,
                   chunkPreview, partVars, resVars, callVars,
                   srvVars>>

\* the user edits #chunk-count
TypeChunkCount(t) ==
    /\ chunkCountInput # t
    /\ chunkCountInput' = t
    /\ UNCHANGED <<lastRequested, currentEPUB, currentChunks, selectedChunks,
                   selectedChapters, currentMode, chunkPreview,
                   pendingOpens, partVars, resVars, callVars,
                   srvVars>>

\* calculateChunks
CalculateChunks ==
    /\ currentEPUB # NoEpub
    /\ ~invalidChunkCount(parseInt(chunkCountInput))
    /\ LET count == parseInt(chunkCountInput).value
           totalWords == totalWordCount(currentEPUB.chapters)
           target == totalWords \div count
       IN chunkPreview' = [totalWords |-> totalWords,
                           targetWordsPerChunk |-> target,
                           minWords |-> target - target \div 10,
                           maxWords |-> target + target \div 10]
    /\ UNCHANGED <<lastRequested, currentEPUB, currentChunks, selectedChunks,
                   selectedChapters, currentMode, chunkCountInput,
                   pendingOpens, partVars, resVars, callVars,
                   srvVars>>

\* splitIntoChunks
SplitIntoChunks ==
    /\ currentEPUB # NoEpub
    /\ LET parsed == parseInt(chunkCountInput)
           totalWords == totalWordCount(currentEPUB.chapters)
           target == IF parsed.nan \/ parsed.value <= 0 THEN 0
                     ELSE totalWords \div parsed.value
           sorted == SortBySpineOrder(currentEPUB.chapters)
           outcome == splitOutcome(toFullContent(sorted), parsed, target,
                                   target \div 10)
       IN /\ currentEPUB' = [currentEPUB EXCEPT !.chapters = sorted]
          /\ IF outcome.threw
             THEN UNCHANGED <<lastRequested, currentChunks, selectedChunks>>
             ELSE /\ currentChunks' = outcome.chunks
                  /\ selectedChunks' = {}
    /\ UNCHANGED <<lastRequested, selectedChapters, currentMode, chunkCountInput,
                   chunkPreview, pendingOpens, partVars, resVars, callVars,
                   srvVars>>

\* switchToMode
SwitchToMode(mode) ==
    /\ currentMode # mode
    /\ currentMode' = mode
    /\ UNCHANGED <<lastRequested, currentEPUB, currentChunks, selectedChunks,
                   selectedChapters, chunkCountInput, chunkPreview,
                   pendingOpens, partVars, resVars, callVars,
                   srvVars>>

\* toggleChunkSelection, from the checkbox of a displayed chunk
ToggleChunkSelection(id) ==
    /\ id \in chunkIds(currentChunks)
    /\ selectedChunks' = IF id \in selectedChunks
                         THEN selectedChunks \ {id}
                         ELSE selectedChunks \cup {id}
    /\ UNCHANGED <<lastRequested, currentEPUB, currentChunks, selectedChapters,
                   currentMode, chunkCountInput, chunkPreview,
                   pendingOpens, partVars, resVars, callVars,
                   srvVars>>

\* the select-all button: selectAllChunks or selectAllChapters
SelectAll ==
    /\ currentEPUB # NoEpub
    /\ IF currentMode = "chunks"
       THEN /\ selectedChunks' = selectedChunks \cup chunkIds(currentChunks)
            /\ UNCHANGED selectedChapters
       ELSE /\ selectedChapters' = selectedChapters
                                   \cup chapterIds(currentEPUB.chapters)
            /\ UNCHANGED selectedChunks
    /\ <<selectedChunks, selectedChapters>>'
          # <<selectedChunks, selectedChapters>>
    /\ UNCHANGED <<lastRequested, currentEPUB, currentChunks, currentMode,
                   chunkCountInput, chunkPreview, pendingOpens, partVars,
                   resVars, callVars,
                   srvVars>>

\* the deselect-all button: deselectAllChunks or deselectAllChapters
DeselectAll ==
    /\ currentEPUB # NoEpub
    /\ IF currentMode = "chunks"
       THEN /\ selectedChunks' = selectedChunks \ chunkIds(currentChunks)
            /\ UNCHANGED selectedChapters
       ELSE /\ selectedChapters' = {}
            /\ UNCHANGED selectedChunks
    /\ <<selectedChunks, selectedChapters>>'
          # <<selectedChunks, selectedChapters>>
    /\ UNCHANGED <<lastRequested, currentEPUB, currentChunks, currentMode,
                   chunkCountInput, chunkPreview, pendingOpens, partVars,
                   resVars, callVars,
                   srvVars>>

AppNext ==
    \/ \E f \in Files : OpenRequest(f)
    \/ \E f \in Files : OpenSucceed(f)
    \/ \E f \in Files : OpenFail(f)
    \/ \E t \in ChunkCountTexts : TypeChunkCount(t)
    \/ CalculateChunks
    \/ SplitIntoChunks
    \/ \E mode \in {"chapters", "chunks"} : SwitchToMode(mode)
    \/ \E id \in 1..3 : ToggleChunkSelection(id)
    \/ SelectAll
    \/ DeselectAll

SpecApp == AppInit /\ [][AppNext]_vars

-----------------------------------------------------------------------------
(* Export: pure functions *)

(***************************************************************************)
(* An HTML string is a sequence of tokens: tags and the words of the text  *)
(* between them.  A title is a sequence of words.                          *)
(***************************************************************************)

MaxExportChapters == 2   \* most chapters in an exported book

Newline == "\n"

\* the closing tags of the elements htmlToPlainText puts "\n\n" after
BlockCloseTags == {"</p>", "</div>", "</h1>", "</h2>"}

HtmlTags == BlockCloseTags
              \cup {"<p>", "<div>", "<h1>", "<h2>", "<hr>", "<br>", "<b>",
                    "</b>"}

\* div.textContent = word; div.innerHTML
escapeWord(w) ==
    IF w = "R&D" THEN "R&amp;D"
    ELSE IF w = "<b>" THEN "&lt;b&gt;"
    ELSE w

\* the text a parsed text node holds
decodeWord(w) ==
    IF w = "R&amp;D" THEN "R&D"
    ELSE IF w = "&lt;b&gt;" THEN "<b>"
    ELSE w

\* escapeHtml
escapeHtml(text) == [i \in 1..Len(text) |-> escapeWord(text[i])]

\* generateExportContent: the forEach over the chapters
RECURSIVE exportChapters(_)
exportChapters(chs) ==
    IF chs = <<>> THEN <<>>
    ELSE <<"<div>", "<h2>">> \o escapeHtml(Head(chs).title)
           \o <<"</h2>", "<div>">> \o Head(chs).htmlContent
           \o <<"</div>", "</div>">> \o exportChapters(Tail(chs))

\* generateExportContent
generateExportContent(book, chs) ==
    <<"<div>", "<h1>">> \o escapeHtml(book.title) \o <<"</h1>">>
      \o <<"<p>", "by">> \o escapeHtml(book.author) \o <<"</p>", "<hr>">>
      \o exportChapters(chs) \o <<"</div>">>

\* exportSelectedChapters in chapters mode without the sort
exportSelectedChapters_listOrder(book, selected) ==
    IF selected = {} THEN <<>>
    ELSE generateExportContent(book,
             SelectSeq(book.chapters, LAMBDA ch : ch.id \in selected))

\* exportSelectedChapters in chapters mode: the export content, <<>> when
\* nothing is selected
exportSelectedChapters(book, selected) ==
    IF selected = {} THEN <<>>
    ELSE generateExportContent(book,
             SortBySpineOrder(
                 SelectSeq(book.chapters, LAMBDA ch : ch.id \in selected)))

\* htmlToPlainText: div.textContent after the line breaks are inserted
RECURSIVE textWithBreaks(_)
textWithBreaks(html) ==
    IF html = <<>> THEN <<>>
    ELSE (IF Head(html) \in BlockCloseTags THEN <<Newline, Newline>>
          ELSE IF Head(html) = "<br>" THEN <<Newline>>
          ELSE IF Head(html) \in HtmlTags THEN <<>>
          ELSE <<decodeWord(Head(html))>>)
         \o textWithBreaks(Tail(html))

\* htmlToPlainText: .replace(/\n{3,}/g, '\n\n'), a run of two newlines
\* being the token "\n\n"; run is the length of the run of newlines read
RECURSIVE collapseNewlines(_, _)
collapseNewlines(text, run) ==
    LET flush == IF run = 0 THEN <<>>
                 ELSE IF run = 1 THEN <<Newline>> ELSE <<Para>>
    IN IF text = <<>> THEN flush
       ELSE IF Head(text) = Newline
       THEN collapseNewlines(Tail(text), run + 1)
       ELSE flush \o <<Head(text)>> \o collapseNewlines(Tail(text), 0)

\* String.prototype.trim
RECURSIVE trimStart(_)
trimStart(text) ==
    IF text # <<>> /\ Head(text) \in {Newline, Para}
    THEN trimStart(Tail(text)) ELSE text

trim(text) == Reverse(trimStart(Reverse(trimStart(text))))

\* htmlToPlainText
htmlToPlainText(html) == trim(collapseNewlines(textWithBreaks(html), 0))

\* books handed to the export
ExportTitles == {<<"One">>, <<"Two">>, <<"R&D">>, <<"<b>", "One">>}

ExportBodies ==
    { <<>>,
      <<"<p>", "w", "</p>">>,
      <<"<h1>", "One", "</h1>", "<p>", "w", "<br>", "w", "</p>">>,
      <<"<p>", "w", "Two", "</p>", "<p>", "<b>", "w", "</b>", "</p>">> }

ExportChapters ==
    [title : ExportTitles, spineOrder : 0..1, htmlContent : ExportBodies]

exportBook(bookTitle, chs) ==
    [title |-> bookTitle, author |-> <<"A">>,
     chapters |-> [i \in 1..Len(chs) |->
                      [id |-> i, title |-> chs[i].title,
                       spineOrder |-> chs[i].spineOrder,
                       htmlContent |-> chs[i].htmlContent]]]

-----------------------------------------------------------------------------
(* Navigation trees: pure functions *)

(***************************************************************************)
(* A table of contents is a sequence of nodes (the li elements of an ol,   *)
(* the navPoint elements of a navMap).  A node holds                       *)
(*   title     the text of its own link (a) or label (navLabel text)       *)
(*   linked    it has a link (EPUB3), a label and a content (NCX)          *)
(*   children  the nodes of its nested ol, its child navPoints             *)
(***************************************************************************)

MaxNavBranch == 2   \* most nodes in one list of a table of contents

\* lists of nodes without nested lists
NavLeafLists ==
    UNION {[1..k -> [linked : BOOLEAN, children : {<<>>}]] :
              k \in 0..MaxNavBranch}

\* the nodes of a top-level list: each may hold one nested list
NavNodes == [linked : BOOLEAN, children : NavLeafLists]

\* the nodes titled by their position: "1", "1.2", ...
RECURSIVE titled(_, _)
titled(forest, prefix) ==
    [i \in 1..Len(forest) |->
        [title |-> prefix \o ToString(i),
         linked |-> forest[i].linked,
         children |-> titled(forest[i].children,
                             prefix \o ToString(i) \o ".")]]

\* the nodes of a table of contents in document order
RECURSIVE documentOrder(_)
documentOrder(forest) ==
    IF forest = <<>> THEN <<>>
    ELSE <<Head(forest)>> \o documentOrder(Head(forest).children)
           \o documentOrder(Tail(forest))

\* li.querySelector('a'): the title of the first link inside the li, ""
\* when there is none
RECURSIVE firstLink(_)
firstLink(li) ==
    IF li.linked THEN li.title
    ELSE LET inside == SelectSeq(documentOrder(li.children),
                                 LAMBDA n : n.linked)
         IN IF inside = <<>> THEN "" ELSE Head(inside).title

\* parseNavigationList over the li elements from index i (0-based)
RECURSIVE walkNavigationList(_, _, _, _)
walkNavigationList(lis, i, parentId, depth) ==
    IF i >= Len(lis) THEN <<>>
    ELSE
      LET li == lis[i + 1]
          id == "nav-" \o parentId \o "-" \o ToString(i) \o "-"
                  \o ToString(depth)
      IN (IF firstLink(li) = "" THEN <<>>
          ELSE <<[id |-> id, title |-> firstLink(li)]>>
                 \o walkNavigationList(li.children, 0, id, depth + 1))
         \o walkNavigationList(lis, i + 1, parentId, depth)

\* parseEPUB3Navigation for a nav document with a toc
parseEPUB3Navigation(ol) == walkNavigationList(ol, 0, "root", 0)

\* parseNCXNavPoints over the navPoint elements from index i (0-based)
RECURSIVE parseNCXNavPoints(_, _, _, _)
parseNCXNavPoints(navPoints, i, parentId, depth) ==
    IF i >= Len(navPoints) THEN <<>>
    ELSE
      LET navPoint == navPoints[i + 1]
          id == "ncx-" \o parentId \o "-" \o ToString(i) \o "-"
                  \o ToString(depth)
      IN (IF ~navPoint.linked THEN <<>>
          ELSE <<[id |-> id, title |-> navPoint.title]>>
                 \o parseNCXNavPoints(navPoint.children, 0, id, depth + 1))
         \o parseNCXNavPoints(navPoints, i + 1, parentId, depth)

\* parseEPUB2Navigation for an NCX with a navMap:
\* navMap.querySelectorAll('navPoint') holds every navPoint of the map
parseEPUB2Navigation(navMap) ==
    parseNCXNavPoints(documentOrder(navMap), 0, "root", 0)

-----------------------------------------------------------------------------
(* File server: the handlers of server.js *)

(***************************************************************************)
(* A path or file name is a string, written as a sequence of pieces: the   *)
(* separator "/" and runs of other characters.  A directory entry name may *)
(* take several pieces ("files" then "-backup"), so that a prefix of the   *)
(* string need not end at a separator.                                     *)
(***************************************************************************)

\* __dirname
dirname == <<"/", "app">>

\* decodeURIComponent, piece by piece: a malformed escape throws URIError
decodePiece(piece) ==
    CASE piece = "%2F" -> <<"/">>
      [] piece = "%2E%2E" -> <<"..">>
      [] OTHER -> <<piece>>

RECURSIVE decodePieces(_)
decodePieces(str) ==
    IF str = <<>> THEN <<>>
    ELSE decodePiece(Head(str)) \o decodePieces(Tail(str))

decodeURIComponent(str) ==
    IF \E i \in 1..Len(str) : str[i] = "%"
    THEN [threw |-> TRUE, value |-> <<>>]
    ELSE [threw |-> FALSE, value |-> decodePieces(str)]

\* the segments of a path string: the runs of pieces between separators
RECURSIVE splitPath(_, _, _)
splitPath(str, segments, current) ==
    IF str = <<>> THEN Append(segments, current)
    ELSE IF Head(str) = "/"
         THEN splitPath(Tail(str), Append(segments, current), <<>>)
         ELSE splitPath(Tail(str), segments, Append(current, Head(str)))

\* path.normalize on the segments of an absolute path: empty and "."
\* segments are dropped, ".." removes the segment before it
RECURSIVE normalizeSegments(_, _)
normalizeSegments(segments, kept) ==
    IF segments = <<>> THEN kept
    ELSE LET seg == Head(segments)
         IN IF seg = <<>> \/ seg = <<".">>
            THEN normalizeSegments(Tail(segments), kept)
            ELSE IF seg = <<"..">>
            THEN normalizeSegments(Tail(segments),
                    IF kept = <<>> THEN kept
                    ELSE SubSeq(kept, 1, Len(kept) - 1))
            ELSE normalizeSegments(Tail(segments), Append(kept, seg))

\* the absolute path string of a list of segments
RECURSIVE joinSegments(_)
joinSegments(segments) ==
    IF segments = <<>> THEN <<>>
    ELSE <<"/">> \o Head(segments) \o joinSegments(Tail(segments))

\* path.resolve of an absolute path
pathResolve(str) ==
    LET segments == normalizeSegments(splitPath(str, <<>>, <<>>), <<>>)
    IN IF segments = <<>> THEN <<"/">> ELSE joinSegments(segments)

\* path.join(a, b, c) for an absolute a and no trailing separator in c
pathJoin(a, b, c) == pathResolve(a \o <<"/">> \o b \o <<"/">> \o c)

\* String.prototype.startsWith
startsWith(str, prefix) ==
    Len(prefix) <= Len(str) /\ SubSeq(str, 1, Len(prefix)) = prefix

\* the files a deployment holds, and its directories
ServerFiles ==
    {<<"/", "app", "/", "files", "/", "a.epub">>,
     <<"/", "app", "/", "files", "/", "b.epub">>,
     <<"/", "app", "/", "files", "-backup", "/", "old.epub">>,
     <<"/", "app", "/", "server.js">>}

ServerDirs ==
    {<<"/">>, <<"/", "app">>, <<"/", "app", "/", "files">>,
     <<"/", "app", "/", "files", "-backup">>}

\* the values of req.params.filename
RequestNames ==
    {<<"a.epub">>, <<"b.epub">>, <<"missing.epub">>, <<".">>, <<"..">>,
     <<"%">>,
     <<"..", "/", "server.js">>,
     <<"%2E%2E", "%2F", "server.js">>,
     <<"..", "/", "files", "/", "a.epub">>,
     <<"..", "/", "files", "-backup", "/", "old.epub">>}

\* the handlers of /api/files/:filename up to the point where they touch
\* the file: the status they answer, and the path they go on with
lookupFile(files, name) ==
    LET decoded == decodeURIComponent(name)
        filePath == pathJoin(dirname, <<"files">>, decoded.value)
        resolvedPath == pathResolve(filePath)
        filesDir == pathResolve(dirname \o <<"/">> \o <<"files">>)
    IN IF decoded.threw THEN [status |-> 500, path |-> <<>>]
       ELSE IF ~startsWith(resolvedPath, filesDir)
       THEN [status |-> 403, path |-> <<>>]
       ELSE IF filePath \notin files \cup ServerDirs
       THEN [status |-> 404, path |-> <<>>]
       ELSE IF filePath \in ServerDirs
       THEN [status |-> 500, path |-> <<>>]
       ELSE [status |-> 200, path |-> filePath]

ServerInit ==
    /\ disk = ServerFiles
    /\ response = NoResponse
    /\ PartIdle /\ ResIdle /\ AppIdle /\ CallIdle

\* GET /api/files/:filename
GetFile(name) ==
    /\ LET found == lookupFile(disk, name)
       IN response' = [method |-> "GET", filename |-> name,
                       status |-> found.status, path |-> found.path]
    /\ UNCHANGED <<disk, partVars, resVars, appVars, callVars>>

\* DELETE /api/files/:filename
DeleteFile(name) ==
    /\ LET found == lookupFile(disk, name)
       IN /\ response' = [method |-> "DELETE", filename |-> name,
                          status |-> found.status, path |-> found.path]
          /\ disk' = IF found.status = 200 THEN disk \ {found.path}
                     ELSE disk
    /\ UNCHANGED <<partVars, resVars, appVars, callVars>>

ServerNext ==
    \/ \E name \in RequestNames : GetFile(name)
    \/ \E name \in RequestNames : DeleteFile(name)

SpecServer == ServerInit /\ [][ServerNext]_vars

-----------------------------------------------------------------------------
(* Calls of the side-effect-free methods *)

\* the spec's example ["End.", "Chapter", "Two", "begins", "now"]
ExampleWords == <<"End.", "Chapter", "w", "w", "w">>

\* word sequences handed to the break-point search
SearchTexts ==
    {patternCorpus(p, n) : p \in Patterns, n \in 0..MaxWords}
        \cup {ExampleWords}

\* the word sequences and indices of the direct scoring calls: the two
\* words at the boundary, alone or after one more word, and every index
\* from below the sequence to above it
ScoreCalls ==
    {[words |-> ws, splitIndex |-> i] :
        ws \in {<<b, a>> : b \in ScoreWords, a \in ScoreWords}
               \cup {<<"w", b, a>> : b \in ScoreWords, a \in ScoreWords},
        i \in -1..4}

CallInit ==
    /\ \/ \E words \in SearchTexts : \E targetSplit \in 0..Len(words) :
             call = [op |-> "findOptimalSplitPoint", words |-> words,
                     targetSplit |-> targetSplit]
       \/ \E bookTitle \in {<<"Book">>, <<"One">>} :
             \E chs \in SeqsUpTo(ExportChapters, MaxExportChapters) :
                call = [op |-> "exportAll", book |-> exportBook(bookTitle, chs)]
       \/ \E k \in 0..MaxNavBranch :
             \E forest \in [1..k -> NavNodes] :
                \E op \in {"parseEPUB3Navigation", "parseEPUB2Navigation"} :
                   call = [op |-> op, toc |-> titled(forest, "")]
       \/ \E c \in ScoreCalls :
             call = [op |-> "calculateBreakPointScore", words |-> c.words,
                     splitIndex |-> c.splitIndex]
    /\ ret = <<>>
    /\ PartIdle /\ ResIdle /\ AppIdle /\ SrvIdle

CalculateBreakPointScore ==
    /\ call.op = "calculateBreakPointScore"
    /\ ret = <<>>
    /\ ret' = <<calculateBreakPointScore(call.words, call.splitIndex)>>
    /\ UNCHANGED <<call, partVars, resVars, appVars, srvVars>>

FindOptimalSplitPoint ==
    /\ call.op = "findOptimalSplitPoint"
    /\ ret = <<>>
    /\ ret' = <<findOptimalSplitPoint(call.words, call.targetSplit)>>
    /\ UNCHANGED <<call, partVars, resVars, appVars, srvVars>>

\* select all chapters, export, and copy the export as plain text
ExportAll ==
    /\ call.op = "exportAll"
    /\ ret = <<>>
    /\ ret' = <<htmlToPlainText(
                  exportSelectedChapters(call.book,
                                         chapterIds(call.book.chapters)))>>
    /\ UNCHANGED <<call, partVars, resVars, appVars, srvVars>>

ParseEPUB3Navigation ==
    /\ call.op = "parseEPUB3Navigation"
    /\ ret = <<>>
    /\ ret' = <<parseEPUB3Navigation(call.toc)>>
    /\ UNCHANGED <<call, partVars, resVars, appVars, srvVars>>

ParseEPUB2Navigation ==
    /\ call.op = "parseEPUB2Navigation"
    /\ ret = <<>>
    /\ ret' = <<parseEPUB2Navigation(call.toc)>>
    /\ UNCHANGED <<call, partVars, resVars, appVars, srvVars>>

CallNext ==
    \/ CalculateBreakPointScore
    \/ FindOptimalSplitPoint
    \/ ExportAll
    \/ ParseEPUB3Navigation
    \/ ParseEPUB2Navigation

SpecCalls == CallInit /\ [][CallNext]_vars

-----------------------------------------------------------------------------
(* Properties of the chunk partitioner *)

\* the word sequence that initialChunkSplit cuts up
corpusWords == SplitWords(combinedText(fullContent))

RECURSIVE concatWords(_)
concatWords(chs) ==
    IF chs = <<>> THEN <<>> ELSE Head(chs).words \o concatWords(Tail(chs))

sumWordCounts(chs) == SumSeq([i \in 1..Len(chs) |-> chs[i].wordCount])

inBand(chs) ==
    \A i \in 1..Len(chs) :
        /\ chs[i].wordCount >= targetWords - tolerance
        /\ chs[i].wordCount <= targetWords + tolerance

\* C1: for every chapter list and every chunkCount >= 2 the partitioner
\* returns exactly chunkCount chunks, whether refinement stopped early or
\* used up its five iterations.
C1_ExactChunkCount ==
    pc = "done" => Len(result) = chunkCount

\* a run that used up the budget after merging and splitting
C1_Witness ==
    /\ pc = "done"
    /\ iteration = maxIterations
    /\ Len(result) = chunkCount
    /\ ~inBand(chunks)

\* C2: for 2 <= chunkCount <= number of corpus words, the chunk word counts
\* add up to the number of corpus words after the initial split, after
\* every split or merge step and in the returned chunks, and the chunks'
\* words read in order are the corpus: no word is lost or duplicated.
C2_WordCountConservation ==
    (pc # "start" /\ chunkCount <= Len(corpusWords)) =>
        /\ sumWordCounts(chunks) = Len(corpusWords)
        /\ concatWords(chunks) = corpusWords
        /\ \A i \in 1..Len(chunks) :
              chunks[i].wordCount = Len(chunks[i].words)
        /\ pc = "done" => sumWordCounts(result) = Len(corpusWords)

\* a returned result of a run that split and merged chunks
C2_Witness ==
    /\ pc = "done"
    /\ chunkCount <= Len(corpusWords)
    /\ iteration >= 2
    /\ sumWordCounts(result) = Len(corpusWords)

\* C3: after the initial split and after every refinement iteration the
\* ranges [startWordIndex, endWordIndex) are contiguous from 0 to the
\* number of corpus words: the first starts at 0, each starts where its
\* predecessor ends, the last ends at the corpus length, none overlap.
C3_PartitionCoverage ==
    pc \in {"refine", "format", "done"} =>
        /\ chunks[1].startWordIndex = 0
        /\ chunks[Len(chunks)].endWordIndex = Len(corpusWords)
        /\ \A i \in 1..Len(chunks) :
              chunks[i].startWordIndex <= chunks[i].endWordIndex
        /\ \A i \in 1..(Len(chunks) - 1) :
              chunks[i + 1].startWordIndex = chunks[i].endWordIndex

\* the end of a refinement iteration whose merge loop merged a chunk
\* into its left neighbour
C3_Witness ==
    /\ pc = "refine"
    /\ iteration >= 1
    /\ \E i \in 1..Len(chunks) :
          chunks[i].wordCount > targetWords + tolerance
    /\ chunks[Len(chunks)].endWordIndex = Len(corpusWords)

\* C4: when refineChunksRecursively returns, either the chunk count is the
\* requested one and every word count lies in [target - tolerance,
\* target + tolerance], or exactly five iterations were performed.
C4_BoundedConvergence ==
    pc \in {"format", "done"} =>
        \/ Len(chunks) = chunkCount /\ inBand(chunks)
        \/ iteration = maxIterations

\* refinement that used up the budget without converging
C4_Witness ==
    /\ pc = "done"
    /\ iteration = maxIterations
    /\ ~inBand(chunks)

\* C15: the target is floor(N / chunkCount) and the tolerance is
\* floor(target * 0.1), N being the number of words of the corpus that is
\* split, and the band of every refinement is [target - tolerance,
\* target + tolerance].
C15_TargetFromCorpusLength ==
    pc \notin {"idle", "start"} =>
        /\ targetWords = Len(corpusWords) \div chunkCount
        /\ tolerance = targetWords \div 10

\* chs with the chunks at positions i and i + 1 (1-based) merged into one
mergedAt(chs, i) ==
    SubSeq(chs, 1, i - 1)
      \o <<[words |-> chs[i].words \o chs[i + 1].words,
            wordCount |-> chs[i].wordCount + chs[i + 1].wordCount,
            startWordIndex |-> chs[i].startWordIndex,
            endWordIndex |-> chs[i + 1].endWordIndex]>>
      \o SubSeq(chs, i + 2, Len(chs))

\* the chunks without their ids
withoutIds(chs) ==
    [i \in 1..Len(chs) |->
        [words |-> chs[i].words, wordCount |-> chs[i].wordCount,
         startWordIndex |-> chs[i].startWordIndex,
         endWordIndex |-> chs[i].endWordIndex]]

\* the chunk at position i (1-based) has the least word count of all chunks
isMinimal(chs, i) == \A j \in 1..Len(chs) : chs[i].wordCount <= chs[j].wordCount

\* C18: every step of the count reduction merges two adjacent chunks, one of
\* which has the least word count of all chunks of the working sequence.
C18_MergeRemovesMinimalChunk ==
    [][MergeStep =>
          \E i \in 1..(Len(chunks) - 1) :
              /\ withoutIds(chunks') = mergedAt(withoutIds(chunks), i)
              /\ isMinimal(chunks, i) \/ isMinimal(chunks, i + 1)]_vars

\* the state that initialChunkSplit has just returned into
afterInitialSplit == pc = "refine" /\ iteration = 0

\* floor(N / k) for the corpus and the requested count
sliceSize == Len(corpusWords) \div chunkCount

\* C19: initialChunkSplit returns chunkCount contiguous slices of the word
\* sequence; slices 1..k-1 hold exactly floor(N/k) words each, slice k holds
\* the remaining N - (k-1)*floor(N/k) words, and the ids are 1..k in order.
C19_InitialSplitSlices ==
    afterInitialSplit =>
        /\ Len(chunks) = chunkCount
        /\ concatWords(chunks) = corpusWords
        /\ \A i \in 1..chunkCount :
              /\ chunks[i].id = i
              /\ chunks[i].wordCount = Len(chunks[i].words)
              /\ chunks[i].words =
                    SubSeq(corpusWords, (i - 1) * sliceSize + 1,
                           IF i = chunkCount THEN Len(corpusWords)
                           ELSE i * sliceSize)
              /\ i < chunkCount => chunks[i].wordCount = sliceSize
              /\ i = chunkCount =>
                    chunks[i].wordCount =
                        Len(corpusWords) - (chunkCount - 1) * sliceSize

\* three slices of a corpus that three does not divide: the last is longer
C19_Witness ==
    /\ afterInitialSplit
    /\ chunkCount = 3
    /\ sliceSize >= 2
    /\ Len(chunks) = 3
    /\ chunks[1].wordCount = sliceSize
    /\ chunks[3].wordCount > sliceSize

\* the corpus index of the first word of chapter j (1-based j)
chapterStart(content, j) ==
    SumSeq([x \in 1..(j - 1) |-> countWords(content[x].textContent)])

\* the chapters whose word interval contains corpus index p
chaptersContaining(content, p) ==
    {j \in 1..Len(content) :
        /\ p >= chapterStart(content, j)
        /\ p < chapterStart(content, j) + countWords(content[j].textContent)}

\* the title the claim attributes to corpus index p, as a set: the chapter
\* whose interval contains p, the final chapter for an index after the last
\* interval, no statement otherwise
attributedTitles(content, p) ==
    IF chaptersContaining(content, p) # {}
    THEN {content[j].title : j \in chaptersContaining(content, p)}
    ELSE IF content # <<>> /\ p >= chapterStart(content, Len(content) + 1)
    THEN {content[Len(content)].title}
    ELSE {}

\* the corpus index of the first word of chunk i of the working sequence
firstWordIndex(i) == Len(concatWords(SubSeq(chunks, 1, i - 1)))

\* the corpus index after the last word of chunk i
lastWordIndex(i) == Len(concatWords(SubSeq(chunks, 1, i)))

\* C21: every returned chunk's startChapter is the chapter whose corpus word
\* interval contains the index of the chunk's first word, its endChapter the
\* chapter whose interval contains the chunk's last word index minus one; an
\* index after the last interval is attributed to the final chapter.
C21_ChapterAttribution ==
    pc = "done" =>
        \A i \in 1..Len(result) :
            /\ \A t \in attributedTitles(fullContent, firstWordIndex(i)) :
                  result[i].startChapter = t
            /\ \A t \in attributedTitles(fullContent, lastWordIndex(i) - 1) :
                  result[i].endChapter = t

\* a returned chunk that begins in the first chapter and ends in the second
C21_Witness ==
    /\ pc = "done"
    /\ Len(fullContent) = 2
    /\ \E i \in 1..Len(result) :
          /\ chaptersContaining(fullContent, firstWordIndex(i)) = {1}
          /\ chaptersContaining(fullContent, lastWordIndex(i) - 1) = {2}
          /\ result[i].startChapter = fullContent[1].title
          /\ result[i].endChapter = fullContent[2].title

\* C23: for every corpus and every chunkCount >= 2 the partitioner returns:
\* refinement never goes beyond five iterations, and the merge loop and the
\* split loop of every iteration come to an end, also when chunks are empty
\* or chunkCount is larger than the number of words.
C23_PartitionerTerminates ==
    <>(pc = "done" /\ iteration <= maxIterations)

\* a run that returned after five iterations for more chunks than words,
\* with an empty chunk in the result
C23_Witness ==
    /\ pc = "done"
    /\ iteration = maxIterations
    /\ chunkCount > Len(corpusWords)
    /\ Len(corpusWords) > 0
    /\ \E i \in 1..Len(result) : result[i].wordCount = 0

\* a returned chunk whose word count lies outside the band
outOfBand(ch) ==
    \/ ch.wordCount < targetWords - tolerance
    \/ ch.wordCount > targetWords + tolerance

\* C24: refinement is best-effort.  Whenever the tolerance is 0 and
\* chunkCount chunks of the target size do not add up to the corpus, the
\* result is returned after the fifth iteration and still holds a chunk
\* whose word count lies outside [target - tolerance, target + tolerance].
C24_BestEffortAtExhaustion ==
    (/\ pc = "done"
     /\ tolerance = 0
     /\ targetWords * chunkCount # Len(corpusWords))
        => /\ iteration = maxIterations
           /\ \E i \in 1..Len(result) : outOfBand(result[i])

\* a result of the requested count, for fewer chunks than words, returned
\* after the fifth iteration with a chunk outside the band
C24_Witness ==
    /\ pc = "done"
    /\ iteration = maxIterations
    /\ chunkCount <= Len(corpusWords)
    /\ Len(result) = chunkCount
    /\ tolerance = 0
    /\ targetWords * chunkCount # Len(corpusWords)
    /\ \E i \in 1..Len(result) : outOfBand(result[i])

\* C26: for a corpus of N words and 2 <= chunkCount <= N, every chunk of
\* the working sequence after the initial split and after each refinement
\* iteration, and every returned chunk, holds at least one word.
C26_NoEmptyChunk ==
    (pc \in {"refine", "format", "done"} /\ chunkCount <= Len(corpusWords))
        => /\ \A i \in 1..Len(chunks) :
                 chunks[i].wordCount >= 1 /\ Len(chunks[i].words) >= 1
           /\ \A i \in 1..Len(result) : result[i].wordCount >= 1

\* a result for no more chunks than words, returned after five iterations
\* that split one-word chunks (the target is 0), without an empty chunk
C26_Witness ==
    /\ pc = "done"
    /\ chunkCount <= Len(corpusWords)
    /\ targetWords = 0
    /\ iteration = maxIterations
    /\ Len(result) = chunkCount
    /\ \A i \in 1..Len(result) : result[i].wordCount >= 1

\* the position of the chapter of that title in the sorted chapter order
chapterIndex(title) ==
    CHOOSE j \in 1..Len(fullContent) : fullContent[j].title = title

\* C29: for every returned chunk the start chapter does not come after the
\* end chapter in the sorted chapter order, for every corpus and every
\* chunkCount >= 2, counts above the number of words included.
C29_StartNotAfterEnd ==
    (pc = "done" /\ fullContent # <<>>) =>
        \A i \in 1..Len(result) :
            chapterIndex(result[i].startChapter)
                <= chapterIndex(result[i].endChapter)

-----------------------------------------------------------------------------
(* Properties of the archive resolver *)

\* the archive path of content document d
docPath(a, d) == basePathOf(opfPathNamed) \o a.docs[d].href

\* the content document a spine idref names, 0 if it names none
docOfIdref(a, idref) ==
    IF \E d \in 1..Len(a.docs) : a.docs[d].id = idref
    THEN CHOOSE d \in 1..Len(a.docs) : a.docs[d].id = idref
    ELSE 0

\* what becomes of spine entry k: "dangling" (its idref names no manifest
\* item), or the state of the file it names
spineEntryState(a, k) ==
    LET d == docOfIdref(a, a.spineRefs[k])
    IN IF d = 0 THEN "dangling" ELSE a.docs[d].file

\* the spine entries (1-based) whose document is read and yields text
extractedEntries(a) ==
    SelectSeq([k \in 1..Len(a.spineRefs) |-> k],
              LAMBDA k : spineEntryState(a, k) \in {"short", "long"})

\* the number of spine entries whose extraction threw
thrownEntries(a) ==
    Cardinality({k \in 1..Len(a.spineRefs) :
                    spineEntryState(a, k) = "corrupt"})

\* the spine positions (1-based) of the document stored at path src
spinePositions(a, src) ==
    {k \in 1..Len(a.spineRefs) :
        /\ docOfIdref(a, a.spineRefs[k]) # 0
        /\ docPath(a, docOfIdref(a, a.spineRefs[k])) = src}

\* the navigation source parseNavigation reads
locatedSource(a) ==
    IF a.nav3 \in {"broken", "ok"} THEN "nav3"
    ELSE IF a.ncx \in {"broken", "ok"} THEN "ncx"
    ELSE "none"

\* reading the located navigation source fails
navigationParseFails(a) ==
    \/ locatedSource(a) = "nav3" /\ a.nav3 = "broken"
    \/ locatedSource(a) = "ncx" /\ a.ncx = "broken"

\* the chapters were extracted along the navigation
navigationDriven == ~navigation.isNull /\ Len(navigation.items) > 0

\* the chapters are those of the spine fallback: one per extracted spine
\* entry, in spine order
chaptersFollowSpine ==
    LET ex == extractedEntries(archive)
    IN /\ Len(epub.chapters) = Len(ex)
       /\ \A j \in 1..Len(ex) :
             /\ epub.chapters[j].id[1] = "spine"
             /\ epub.chapters[j].id[2] = ex[j] - 1
             /\ epub.chapters[j].spineOrder = ex[j] - 1
             /\ epub.chapters[j].src =
                  docPath(archive, docOfIdref(archive,
                                              archive.spineRefs[ex[j]]))

\* C6: sorting the resolved chapters by spineOrder gives the spine reading
\* order: of two chapters read from different spine documents, the one
\* sorted first has a spine position before a spine position of the other.
C6_SpineOrderConsistent ==
    rpc = "done" =>
        LET sorted == SortBySpineOrder(epub.chapters)
        IN \A i \in 1..Len(sorted) : \A j \in (i + 1)..Len(sorted) :
              LET pi == spinePositions(archive, sorted[i].src)
                  pj == spinePositions(archive, sorted[j].src)
              IN (sorted[i].src # sorted[j].src /\ pi # {} /\ pj # {})
                    => \E p \in pi, q \in pj : p < q

\* C7: a document whose plain text has at most 10 words is the source of no
\* chapter of navigation-driven extraction, and is the source of a chapter
\* for each of its spine entries in spine-fallback extraction.
C7_AsymmetricFilter ==
    rpc = "done" =>
        \A d \in 1..Len(archive.docs) :
            (/\ archive.docs[d].file \in {"short", "long"}
             /\ parserCountWords(archive.docs[d].text) <= 10)
            =>
            /\ navigationDriven =>
                  \A j \in 1..Len(epub.chapters) :
                      epub.chapters[j].src # docPath(archive, d)
            /\ ~navigationDriven =>
                  \A k \in spinePositions(archive, docPath(archive, d)) :
                      \E j \in 1..Len(epub.chapters) :
                          /\ epub.chapters[j].id[2] = k - 1
                          /\ epub.chapters[j].src = docPath(archive, d)
                          /\ epub.chapters[j].wordCount <= 10

\* navigation-driven extraction met a 10-word document and a longer one and
\* kept only the longer one
C7_Witness ==
    /\ rpc = "done"
    /\ navigationDriven
    /\ archive.docs[1].file = "short"
    /\ parserCountWords(archive.docs[1].text) = 10
    /\ archive.docs[2].file = "long"
    /\ \E i \in 1..Len(navigation.items) : navigation.items[i].href = <<"a">>
    /\ Len(epub.chapters) = 1
    /\ epub.chapters[1].src = docPath(archive, 2)

C9_CountIsSpineLengthMinusFailures ==
    (rpc = "done" /\ locatedSource(archive) = "none") =>
        /\ Len(epub.chapters) =
             Len(archive.spineRefs) - thrownEntries(archive)
        /\ \A j \in 1..(Len(epub.chapters) - 1) :
              epub.chapters[j].spineOrder < epub.chapters[j + 1].spineOrder

\* C9: without a nav document and an NCX, the number of chapters is the
\* number of spine entries whose idref names a manifest item whose file is
\* in the archive, minus the number of those whose extraction threw; the
\* chapters are those entries' documents, in spine order.
C9_CountIsResolvableEntriesMinusFailures ==
    (rpc = "done" /\ locatedSource(archive) = "none") =>
        /\ Len(epub.chapters) =
             Cardinality({k \in 1..Len(archive.spineRefs) :
                 spineEntryState(archive, k) \in {"corrupt", "short", "long"}})
             - thrownEntries(archive)
        /\ chaptersFollowSpine
        /\ epub.errors = <<>>

\* spine fallback over a spine whose first idref names no manifest item: no
\* extraction threw, and the only chapter is that of the second entry
C9_Witness ==
    /\ rpc = "done"
    /\ locatedSource(archive) = "none"
    /\ Len(archive.spineRefs) = 2
    /\ spineEntryState(archive, 1) = "dangling"
    /\ spineEntryState(archive, 2) \in {"short", "long"}
    /\ Len(epub.chapters) = 1
    /\ epub.chapters[1].spineOrder = 1

\* C10: when reading the located navigation source fails, resolution does
\* not fail: one "Navigation parsing failed" entry is in the result's
\* errors, the navigation stays null and the chapters are those of the
\* spine fallback.
C10_NavigationFailureFallsBack ==
    (/\ rpc # "start"
     /\ structuralError(archive) = ""
     /\ navigationParseFails(archive))
    =>
    /\ rpc \in {"package", "done"}
    /\ failure = ""
    /\ rpc = "done" =>
         /\ epub.errors \in
              {<<"Navigation parsing failed: No TOC navigation found in nav document">>,
               <<"Navigation parsing failed: No navMap found in NCX file">>}
         /\ navigation = NullNavigation
         /\ chaptersFollowSpine

\* a nav document without a toc, beside a readable NCX: the warning is
\* recorded and the chapters come from the spine
C10_Witness ==
    /\ rpc = "done"
    /\ archive.nav3 = "broken" /\ archive.ncx = "ok"
    /\ Len(epub.errors) = 1
    /\ navigation = NullNavigation
    /\ Len(epub.chapters) = 2
    /\ epub.chapters[1].id[1] = "spine"

\* the manifest item a navigation entry is matched to (1-based, 0 if none)
navTarget(mf, navItem) ==
    findIndex(mf, LAMBDA it :
        \/ EndsWith(it.href, navItem.href)
        \/ Includes(it.href, beforeFirst(navItem.href, "#")))

\* the navigation entries that are not matched to the document at path src
navigationWithout(mf, nav, src) ==
    SelectSeq(nav, LAMBDA it :
        navTarget(mf, it) = 0 \/ mf[navTarget(mf, it)].href # src)

\* the spine entries that do not name the manifest item with this id
spineWithout(sp, id) == SelectSeq(sp, LAMBDA e : e.idref # id)

\* what a chapter holds of its document
chapterBodies(chs) ==
    [j \in 1..Len(chs) |->
        [src |-> chs[j].src, textContent |-> chs[j].textContent,
         wordCount |-> chs[j].wordCount]]

\* C11: when reading a chapter's document throws, no chapter is made of that
\* document and the chapters returned are those, in the same order, that
\* extraction returns when the entries of that document are absent from the
\* navigation (navigation-driven path) or from the spine (spine fallback).
C11_ChapterFailureIsolated ==
    rpc = "done" =>
        \A d \in 1..Len(archive.docs) :
            archive.docs[d].file = "corrupt" =>
                /\ \A j \in 1..Len(epub.chapters) :
                      epub.chapters[j].src # docPath(archive, d)
                /\ navigationDriven =>
                      epub.chapters =
                        extractChaptersFromNavigation(archive, manifest,
                            navigationWithout(manifest, navigation.items,
                                              docPath(archive, d)))
                /\ ~navigationDriven =>
                      chapterBodies(epub.chapters) =
                        chapterBodies(
                          extractChaptersFromSpine(archive, manifest,
                              spineWithout(spine, archive.docs[d].id)))

\* navigation-driven extraction whose first entry names a document that
\* cannot be read and whose second entry names a readable one
C11_Witness ==
    /\ rpc = "done"
    /\ navigationDriven
    /\ Len(navigation.items) = 2
    /\ archive.docs[1].file = "corrupt"
    /\ archive.docs[2].file = "long"
    /\ navigation.items[1].href = <<"a">>
    /\ navigation.items[2].href = <<"b">>
    /\ Len(epub.chapters) = 1
    /\ epub.chapters[1].src = docPath(archive, 2)
    /\ epub.chapters[1].id = navigation.items[2].id

\* the navigation entries (1-based) whose extraction throws: the entry is
\* matched to a document that cannot be read and is not skipped as a
\* duplicate of an earlier entry
failedNavigationEntries(a, mf, nav) ==
    {i \in 1..Len(nav) :
        /\ navTarget(mf, nav[i]) # 0
        /\ zipHasFile(a, mf[navTarget(mf, nav[i])].href)
        /\ docAt(a, mf[navTarget(mf, nav[i])].href).file = "corrupt"
        /\ \A j \in 1..(i - 1) :
              ~(/\ nav[j].href = nav[i].href
                /\ navTarget(mf, nav[j]) = navTarget(mf, nav[i]))}

\* the number of chapters whose extraction threw during this resolution
failedChapters ==
    IF navigationDriven
    THEN Cardinality(failedNavigationEntries(archive, manifest,
                                             navigation.items))
    ELSE thrownEntries(archive)

\* C12: the errors list of the returned result holds one entry for a failed
\* navigation parse and one entry for every chapter whose extraction failed.
C12_ErrorsListCountsFailures ==
    rpc = "done" =>
        Len(epub.errors) =
            (IF navigationParseFails(archive) THEN 1 ELSE 0) + failedChapters

\* the text the chapter of table-of-contents entry j is made of when the
\* entry is extracted: the section of its fragment, or the whole document
entryText(a, mf, nav, j) ==
    LET full == docAt(a, mf[navTarget(mf, nav[j])].href).text
        raw == a.toc[j].href
    IN IF Includes(raw, <<"#">>)
       THEN extractFragmentContent(full, afterFirst(raw, "#"))
       ELSE full

\* C16: a navigation entry is skipped as a duplicate if and only if an
\* earlier entry has the same matched manifest path and the same raw href,
\* fragment included: an entry whose document can be read and whose text has
\* more than 10 words yields a chapter exactly when no earlier entry has its
\* manifest path and raw href.
C16_DedupByRawHref ==
    (rpc = "done" /\ navigationDriven) =>
        \A j \in 1..Len(navigation.items) :
            LET nav == navigation.items
                m == navTarget(manifest, nav[j])
                duplicate ==
                    \E i \in 1..(j - 1) :
                        /\ archive.toc[i].href = archive.toc[j].href
                        /\ navTarget(manifest, nav[i]) = m
            IN (/\ m # 0
                /\ zipHasFile(archive, manifest[m].href)
                /\ docAt(archive, manifest[m].href).file # "corrupt"
                /\ parserCountWords(entryText(archive, manifest, nav, j))
                     > MinMeaningfulWords)
               => ((\E c \in 1..Len(epub.chapters) :
                        epub.chapters[c].id = nav[j].id)
                   <=> ~duplicate)

-----------------------------------------------------------------------------
(* Properties of the UI controller *)

\* C5: a split request whose chunk count is below 2 or not a number is
\* rejected before partitioning begins: no chunks are computed and the
\* current chunk list and chunk selection stay as they were.
C5_InvalidCountRejected ==
    [][(SplitIntoChunks /\ invalidChunkCount(parseInt(chunkCountInput)))
          => (currentChunks' = currentChunks
              /\ selectedChunks' = selectedChunks)]_vars

\* C22: splitIntoChunks leaves the chapter list of the open EPUB as it was:
\* the same chapter records, in the same order, with the same field values.
C22_ChaptersUnchangedBySplit ==
    [][SplitIntoChunks => currentEPUB'.chapters = currentEPUB.chapters]_vars

-----------------------------------------------------------------------------
(* Properties of the file server *)

\* the directory entries from the root down to the file a request names
targetSegments(name) ==
    normalizeSegments(
        <<<<"app">>, <<"files">>>>
            \o splitPath(decodeURIComponent(name).value, <<>>, <<>>),
        <<>>)

\* the file a request names lies in the files directory or below it
insideFilesDir(name) ==
    /\ Len(targetSegments(name)) >= 2
    /\ SubSeq(targetSegments(name), 1, 2) = <<<<"app">>, <<"files">>>>

\* C25: a GET or DELETE on /api/files/:filename never reads or deletes a
\* file outside the files directory, whatever the decoded file name, ".."
\* segments included: such a request is answered 403 and leaves the file
\* system as it was.
C25_FilesDirContainment ==
    [][\A name \in RequestNames :
          ((GetFile(name) \/ DeleteFile(name))
             /\ ~decodeURIComponent(name).threw
             /\ ~insideFilesDir(name))
          => (response'.status = 403 /\ disk' = disk)]_vars

\* the words of a chunk list, in order
RECURSIVE chunkListWords(_)
chunkListWords(chs) ==
    IF chs = <<>> THEN <<>>
    ELSE Head(chs).textContent \o chunkListWords(Tail(chs))

\* the corpus that splitIntoChunks makes of a book
corpusOf(book) ==
    SplitWords(combinedText(toFullContent(SortBySpineOrder(book.chapters))))

\* C27: after any sequence of UI operations the current chunk list and the
\* chunk selection are empty or were computed from the EPUB that is open
\* now: a selection or export in chunk mode never holds chunks of an EPUB
\* opened before.
C27_ChunksOfOpenEPUB ==
    /\ currentChunks # <<>> => chunkListWords(currentChunks)
                                  = corpusOf(currentEPUB)
    /\ selectedChunks # {} =>
          /\ selectedChunks \subseteq chunkIds(currentChunks)
          /\ chunkListWords(currentChunks) = corpusOf(currentEPUB)

\* C28: when openEPUB was called for a file and then for another before
\* the first load had completed, then once both have completed the open
\* EPUB and the chapter selection belong to the file requested last,
\* whatever the order in which the two loads complete.
C28_LastRequestedWins ==
    (/\ pendingOpens = {}
     /\ lastRequested # "none"
     /\ ~parseFails(lastRequested))
        => /\ currentEPUB.filename = lastRequested
           /\ selectedChapters \subseteq chapterIds(currentEPUB.chapters)

-----------------------------------------------------------------------------
(* Properties of the break-point score *)

\* the characters of a word
spelling(w) ==
    CASE w = "w" -> <<"w">>
      [] w = "End." -> <<"E", "n", "d", ".">>
      [] w = "Chapter" -> <<"C", "h", "a", "p", "t", "e", "r">>
      [] w = "so;" -> <<"s", "o", ";">>
      [] w = "however" -> <<"h", "o", "w", "e", "v", "e", "r">>
      [] w = "*" -> <<"*">>
      [] w = "chapter." -> <<"c", "h", "a", "p", "t", "e", "r", ".">>
      [] w = "However," -> <<"H", "o", "w", "e", "v", "e", "r", ",">>
      [] w = "CHAPTER" -> <<"C", "H", "A", "P", "T", "E", "R">>
      [] w = "2nd" -> <<"2", "n", "d">>
      [] w = "a\n\nb" -> <<"a", "\n", "\n", "b">>
      [] w = "what?" -> <<"w", "h", "a", "t", "?">>
      [] w = "Stop!" -> <<"S", "t", "o", "p", "!">>
      [] w = "so:" -> <<"s", "o", ":">>
      [] w = Para -> <<"\n", "\n">>

UpperLetters ==
    <<"A", "B", "C", "D", "E", "F", "G", "H", "I", "J", "K", "L", "M",
      "N", "O", "P", "Q", "R", "S", "T", "U", "V", "W", "X", "Y", "Z">>
LowerLetters ==
    <<"a", "b", "c", "d", "e", "f", "g", "h", "i", "j", "k", "l", "m",
      "n", "o", "p", "q", "r", "s", "t", "u", "v", "w", "x", "y", "z">>

\* String.prototype.toLowerCase, character by character
lowerChar(c) ==
    IF \E i \in 1..26 : UpperLetters[i] = c
    THEN LowerLetters[CHOOSE i \in 1..26 : UpperLetters[i] = c]
    ELSE c

toLowerCase(str) == [i \in 1..Len(str) |-> lowerChar(str[i])]

\* the words of the transitionWords array
transitionWords ==
    {<<"h", "o", "w", "e", "v", "e", "r">>,
     <<"t", "h", "e", "r", "e", "f", "o", "r", "e">>,
     <<"m", "e", "a", "n", "w", "h", "i", "l", "e">>,
     <<"f", "u", "r", "t", "h", "e", "r", "m", "o", "r", "e">>,
     <<"m", "o", "r", "e", "o", "v", "e", "r">>,
     <<"c", "o", "n", "s", "e", "q", "u", "e", "n", "t", "l", "y">>}

\* the rules of the score and their weights
RuleWeights ==
    [sentenceEnd |-> 100, paragraphBreak |-> 80, punctuation |-> 60,
     capital |-> 40, chapterBreak |-> 90, transition |-> 30]

\* whether a rule matches the boundary between the words spelled before
\* and after
ruleMatches(rule, before, after) ==
    CASE rule = "sentenceEnd" ->
            \E c \in {".", "!", "?"} : EndsWith(before, <<c>>)
      [] rule = "paragraphBreak" ->
            Includes(before, <<"\n", "\n">>) \/ Includes(after, <<"\n", "\n">>)
      [] rule = "punctuation" ->
            \E c \in {".", "!", "?", ";", ":"} : EndsWith(before, <<c>>)
      [] rule = "capital" ->
            after # <<>> /\ \E i \in 1..26 : UpperLetters[i] = after[1]
      [] rule = "chapterBreak" ->
            \/ Includes(toLowerCase(before), <<"c", "h", "a", "p", "t", "e", "r">>)
            \/ Includes(toLowerCase(after), <<"c", "h", "a", "p", "t", "e", "r">>)
      [] rule = "transition" ->
            \E t \in transitionWords :
                /\ Len(t) <= Len(after)
                /\ SubSeq(toLowerCase(after), 1, Len(t)) = t

matchingRules(before, after) ==
    {rule \in DOMAIN RuleWeights : ruleMatches(rule, before, after)}

RECURSIVE weightSum(_)
weightSum(rules) ==
    IF rules = {} THEN 0
    ELSE LET rule == CHOOSE r \in rules : TRUE
         IN RuleWeights[rule] + weightSum(rules \ {rule})

\* a direct scoring call has returned
scoreReturned == call.op = "calculateBreakPointScore" /\ ret # <<>>

\* the rules matching at the boundary of a scoring call inside the sequence
rulesAtBoundary ==
    matchingRules(spelling(call.words[call.splitIndex]),
                  spelling(call.words[call.splitIndex + 1]))

\* C20: calculateBreakPointScore returns 0 for an index <= 0 or >= the
\* length of the sequence, and otherwise exactly the sum of the weights of
\* the rules that match the two words at the boundary, each matching rule
\* adding its weight whatever the other rules do.
C20_ScoreIsSumOfMatchingRules ==
    scoreReturned =>
        ret[1] = IF call.splitIndex <= 0 \/ call.splitIndex >= Len(call.words)
                 THEN 0
                 ELSE weightSum(rulesAtBoundary)

\* a boundary where five of the six rules match at once
C20_Witness ==
    /\ scoreReturned
    /\ call.splitIndex > 0 /\ call.splitIndex < Len(call.words)
    /\ rulesAtBoundary = {"sentenceEnd", "punctuation", "capital",
                          "chapterBreak", "transition"}
    /\ ret[1] = 320

\* the rules matching at boundary i of a word sequence of the partitioner
rulesAt(words, i) == matchingRules(spelling(words[i]), spelling(words[i + 1]))

\* C30: no word of a word sequence that the partitioner builds contains a
\* double line break, so the +80 paragraph rule adds nothing to the score
\* of any boundary of any chunk.
C30_ParagraphRuleIsDead ==
    \A c \in 1..Len(chunks) :
        /\ \A i \in 1..Len(chunks[c].words) :
              ~Includes(spelling(chunks[c].words[i]), <<"\n", "\n">>)
        /\ \A i \in 1..(Len(chunks[c].words) - 1) :
              /\ "paragraphBreak" \notin rulesAt(chunks[c].words, i)
              /\ calculateBreakPointScore(chunks[c].words, i)
                    = weightSum(rulesAt(chunks[c].words, i)
                                   \ {"paragraphBreak"})

\* a refined chunk that runs across the end of the first chapter, where
\* combineContentWithMarkers put a double line break, and has a boundary
\* that scores
C30_Witness ==
    /\ pc = "refine"
    /\ iteration >= 1
    /\ Len(fullContent) = 2
    /\ \E c \in 1..Len(chunks) :
          /\ firstWordIndex(c) < chapterStart(fullContent, 2)
          /\ lastWordIndex(c) > chapterStart(fullContent, 2)
          /\ calculateBreakPointScore(
                chunks[c].words,
                chapterStart(fullContent, 2) - firstWordIndex(c)) > 0

-----------------------------------------------------------------------------
(* Properties of the side-effect-free methods *)

\* the indices findOptimalSplitPoint scores besides targetSplit: those within
\* min(50, floor(0.1 * L)) of targetSplit that lie strictly inside the words
splitCandidates(words, targetSplit) ==
    LET r == Min(50, Len(words) \div 10)
    IN {i \in 1..(Len(words) - 1) :
           i >= targetSplit - r /\ i <= targetSplit + r}

\* C13: findOptimalSplitPoint returns targetSplit or a candidate index; no
\* candidate scores higher than the index returned; targetSplit is returned
\* whenever no candidate scores strictly higher than it, so that for
\* ["End.", "Chapter", "Two", "begins", "now"] and targetSplit 1 it is 1.
C13_BestScoringCandidate ==
    (call.op = "findOptimalSplitPoint" /\ ret # <<>>) =>
        LET words == call.words
            t == call.targetSplit
            c == splitCandidates(words, t)
            best == ret[1]
        IN /\ best = t \/ best \in c
           /\ \A i \in c : calculateBreakPointScore(words, i)
                             <= calculateBreakPointScore(words, best)
           /\ (\A i \in c : calculateBreakPointScore(words, i)
                              <= calculateBreakPointScore(words, t))
                 => best = t
           /\ (words = ExampleWords /\ t = 1) => best = 1

\* a search over a window of at least two words on either side that moved
\* the split to a better-scoring index
C13_Witness ==
    /\ call.op = "findOptimalSplitPoint"
    /\ ret # <<>>
    /\ Len(call.words) >= 20
    /\ ret[1] # call.targetSplit
    /\ ret[1] \in splitCandidates(call.words, call.targetSplit)
    /\ calculateBreakPointScore(call.words, ret[1])
         > calculateBreakPointScore(call.words, call.targetSplit)

\* the positions at which the words of title occur in text
occurrences(text, title) ==
    {i \in 1..(Len(text) - Len(title) + 1) :
        SubSeq(text, i, i + Len(title) - 1) = title}

firstOccurrence(text, title) ==
    CHOOSE i \in occurrences(text, title) :
        \A j \in occurrences(text, title) : i <= j

\* no chapter title occurs in the title of another chapter, in the book's
\* title and author line or in the text of a chapter's content
titlesUnambiguous(book) ==
    \A i \in 1..Len(book.chapters) :
        LET title == book.chapters[i].title
        IN /\ \A j \in 1..Len(book.chapters) :
                 /\ j # i => occurrences(book.chapters[j].title, title) = {}
                 /\ occurrences(
                        htmlToPlainText(book.chapters[j].htmlContent),
                        title) = {}
           /\ occurrences(book.title \o <<Para, "by">> \o book.author,
                          title) = {}

\* C14 as stated: the plain text of the export of all chapters contains
\* every chapter title exactly once, and the titles occur in ascending
\* spine order.
C14_TitlesExactlyOnceInSpineOrder ==
    (call.op = "exportAll" /\ ret # <<>>) =>
        LET chs == call.book.chapters
        IN /\ \A i \in 1..Len(chs) :
                 Cardinality(occurrences(ret[1], chs[i].title)) = 1
           /\ \A i, j \in 1..Len(chs) :
                 chs[i].spineOrder < chs[j].spineOrder =>
                     firstOccurrence(ret[1], chs[i].title)
                       < firstOccurrence(ret[1], chs[j].title)

\* C14: the plain text of the export of all chapters contains every chapter
\* title at least once; when no title occurs in another title, in the book's
\* title and author line or in a chapter's content, it contains every title
\* exactly once and the titles occur in ascending spineOrder.
C14_TitlesOnceWhenUnambiguous ==
    (call.op = "exportAll" /\ ret # <<>>) =>
        LET chs == call.book.chapters
        IN /\ \A i \in 1..Len(chs) : occurrences(ret[1], chs[i].title) # {}
           /\ titlesUnambiguous(call.book) =>
                 /\ \A i \in 1..Len(chs) :
                       Cardinality(occurrences(ret[1], chs[i].title)) = 1
                 /\ \A i, j \in 1..Len(chs) :
                       chs[i].spineOrder < chs[j].spineOrder =>
                           firstOccurrence(ret[1], chs[i].title)
                             < firstOccurrence(ret[1], chs[j].title)

\* an export of two chapters listed against their spineOrder, one title
\* holding characters that escapeHtml escapes
C14_Witness ==
    /\ call.op = "exportAll"
    /\ ret # <<>>
    /\ Len(call.book.chapters) = 2
    /\ titlesUnambiguous(call.book)
    /\ call.book.chapters[1].spineOrder > call.book.chapters[2].spineOrder
    /\ call.book.chapters[2].title = <<"R&D">>
    /\ call.book.chapters[1].htmlContent # <<>>
    /\ firstOccurrence(ret[1], <<"R&D">>)
         < firstOccurrence(ret[1], call.book.chapters[1].title)

\* every node of the table of contents has its own link or label
RECURSIVE allLinked(_)
allLinked(forest) ==
    \A i \in 1..Len(forest) :
        forest[i].linked /\ allLinked(forest[i].children)

\* C17: for an EPUB3 nav list and for an NCX navMap whose nodes all have a
\* link or label, the titles of the flattened navigation are the titles of
\* the nodes of the table of contents, each once, in depth-first order.
C17_FlatteningIsDepthFirst ==
    (/\ call.op \in {"parseEPUB3Navigation", "parseEPUB2Navigation"}
     /\ ret # <<>>
     /\ allLinked(call.toc))
    => [i \in 1..Len(ret[1]) |-> ret[1][i].title]
         = [i \in 1..Len(documentOrder(call.toc)) |->
               documentOrder(call.toc)[i].title]

=============================================================================
